---- MODULE Spec2Model ----
(***************************************************************************)
(* A model of the backer scanner: the candidate generator                  *)
(* (src/src/patterns.rs, src/src/utils.rs), the probe client               *)
(* (src/src/http.rs) and the scan orchestrator (src/src/scanner.rs).       *)
(*                                                                         *)
(* Rust strings are TLA+ strings; the string functions of the standard     *)
(* library that the code calls are defined below from Len, SubSeq and \o.  *)
(***************************************************************************)
EXTENDS Integers, Sequences, FiniteSets, TLC

(***************************************************************************)
(* Strings                                                                 *)
(***************************************************************************)

Min(a, b) == IF a <= b THEN a ELSE b

Max(a, b) == IF a >= b THEN a ELSE b

Range(s) == { s[i] : i \in 1..Len(s) }

\* the i-th character of a string, as a string of length one
CharAt(s, i) == SubSeq(s, i, i)

\* str::starts_with
StartsWith(s, p) == Len(s) >= Len(p) /\ SubSeq(s, 1, Len(p)) = p

\* str::ends_with
EndsWith(s, p) == Len(s) >= Len(p) /\ SubSeq(s, Len(s) - Len(p) + 1, Len(s)) = p

\* the positions at which p occurs in s
Occurrences(s, p) == { i \in 1..(Len(s) - Len(p) + 1) : SubSeq(s, i, i + Len(p) - 1) = p }

\* str::contains
Contains(s, p) == Occurrences(s, p) # {}

\* str::find: the first position of p in s, 0 when there is none
Find(s, p) ==
  IF Contains(s, p)
  THEN CHOOSE i \in Occurrences(s, p) : \A j \in Occurrences(s, p) : i <= j
  ELSE 0

\* the last position at or before i at which p occurs in s, 0 when there is none
RECURSIVE RFindFrom(_, _, _)
RFindFrom(s, p, i) ==
  IF i < 1 THEN 0
  ELSE IF SubSeq(s, i, i + Len(p) - 1) = p THEN i
  ELSE RFindFrom(s, p, i - 1)

\* the last position of p in s, 0 when there is none
RFind(s, p) == RFindFrom(s, p, Len(s) - Len(p) + 1)

\* str::split on a one-character separator: the sequence of the parts
RECURSIVE Split(_, _)
Split(s, sep) ==
  IF ~Contains(s, sep)
  THEN << s >>
  ELSE << SubSeq(s, 1, Find(s, sep) - 1) >>
         \o Split(SubSeq(s, Find(s, sep) + Len(sep), Len(s)), sep)

\* str::replace: every non-overlapping occurrence of from, left to right
RECURSIVE Replace(_, _, _)
Replace(s, from, to) ==
  IF ~Contains(s, from)
  THEN s
  ELSE SubSeq(s, 1, Find(s, from) - 1) \o to
         \o Replace(SubSeq(s, Find(s, from) + Len(from), Len(s)), from, to)

\* str::trim_start_matches for a one-character pattern
RECURSIVE TrimStartMatches(_, _)
TrimStartMatches(s, c) ==
  IF StartsWith(s, c) THEN TrimStartMatches(SubSeq(s, 2, Len(s)), c) ELSE s

Digits == { "0", "1", "2", "3", "4", "5", "6", "7", "8", "9" }

LowerLetters ==
  { "a", "b", "c", "d", "e", "f", "g", "h", "i", "j", "k", "l", "m",
    "n", "o", "p", "q", "r", "s", "t", "u", "v", "w", "x", "y", "z" }

UpperLetters ==
  { "A", "B", "C", "D", "E", "F", "G", "H", "I", "J", "K", "L", "M",
    "N", "O", "P", "Q", "R", "S", "T", "U", "V", "W", "X", "Y", "Z" }

\* char::is_digit(10)
IsDigit(c) == c \in Digits

\* char::is_alphanumeric
IsAlphanumeric(c) == c \in Digits \cup LowerLetters \cup UpperLetters

LowerOf ==
  [ c \in UpperLetters |->
      CASE c = "A" -> "a" [] c = "B" -> "b" [] c = "C" -> "c" [] c = "D" -> "d"
        [] c = "E" -> "e" [] c = "F" -> "f" [] c = "G" -> "g" [] c = "H" -> "h"
        [] c = "I" -> "i" [] c = "J" -> "j" [] c = "K" -> "k" [] c = "L" -> "l"
        [] c = "M" -> "m" [] c = "N" -> "n" [] c = "O" -> "o" [] c = "P" -> "p"
        [] c = "Q" -> "q" [] c = "R" -> "r" [] c = "S" -> "s" [] c = "T" -> "t"
        [] c = "U" -> "u" [] c = "V" -> "v" [] c = "W" -> "w" [] c = "X" -> "x"
        [] c = "Y" -> "y" [] c = "Z" -> "z" ]

\* str::to_lowercase
RECURSIVE ToLowercase(_)
ToLowercase(s) ==
  IF s = "" THEN ""
  ELSE (IF CharAt(s, 1) \in UpperLetters THEN LowerOf[CharAt(s, 1)] ELSE CharAt(s, 1))
         \o ToLowercase(SubSeq(s, 2, Len(s)))

\* the characters of s that satisfy char::is_alphanumeric, in order
RECURSIVE FilterAlphanumeric(_)
FilterAlphanumeric(s) ==
  IF s = "" THEN ""
  ELSE (IF IsAlphanumeric(CharAt(s, 1)) THEN CharAt(s, 1) ELSE "")
         \o FilterAlphanumeric(SubSeq(s, 2, Len(s)))

(***************************************************************************)
(* Candidate generator: src/src/patterns.rs and src/src/utils.rs           *)
(***************************************************************************)

\* PatternGenerator::new: the catalogs every generator starts with
hard_coded_suffixes == << ".rar", ".zip", ".tar.gz", ".tar", ".7z", ".bak" >>

domain_placeholders ==
  << "{domain}", "backup-{domain}", "{domain}-backup", "bak-{domain}",
     "{domain}-bak", "www-{domain}", "{domain}-old", "old-{domain}",
     "{domain}-archive", "archive-{domain}", "{domain}_backup",
     "backup_{domain}", "{domain}_bak", "bak_{domain}", "{domain}_old",
     "old_{domain}", "{domain}_archive", "archive_{domain}" >>

backup_dirs == << "backup", "backups" >>

common_names == << "backup", "site", "www", "web", "database", "db" >>

PatternGeneratorNew ==
  [ prefixes |-> << >>,
    full_paths |-> << >>,
    hard_coded_suffixes |-> hard_coded_suffixes,
    domain_placeholders |-> domain_placeholders,
    backup_dirs |-> backup_dirs ]

\* Url::parse (url crate) as the code uses it: the scheme and the host.
\* A string with no valid "scheme:" in front is a relative URL and does not
\* parse.  After "scheme://" the host runs to the first '/', ':', '?' or '#',
\* is lower-cased, and must be non-empty and free of spaces.  A URL without
\* "//" after the scheme (mailto:admin) parses and has no host.
SchemeChars == LowerLetters \cup UpperLetters \cup Digits \cup { "+", "-", "." }

HostEnd(rest) ==
  LET stops == { i \in 1..Len(rest) : CharAt(rest, i) \in { ":", "/", "?", "#" } }
  IN  IF stops = {} THEN Len(rest)
      ELSE (CHOOSE i \in stops : \A j \in stops : i <= j) - 1

UrlParse(s) ==
  LET colon == Find(s, ":")
      scheme == SubSeq(s, 1, colon - 1)
      after == SubSeq(s, colon + 1, Len(s))
      rest == SubSeq(after, 3, Len(after))
      host == ToLowercase(SubSeq(rest, 1, HostEnd(rest)))
      failed == [ ok |-> FALSE, scheme |-> "", has_host |-> FALSE, host |-> "" ]
  IN  IF \/ colon <= 1
         \/ CharAt(s, 1) \notin LowerLetters \cup UpperLetters
         \/ \E i \in 1..Len(scheme) : CharAt(scheme, i) \notin SchemeChars
      THEN failed
      ELSE IF ~StartsWith(after, "//")
           THEN [ ok |-> TRUE, scheme |-> ToLowercase(scheme),
                  has_host |-> FALSE, host |-> "" ]
           ELSE IF host = "" \/ Contains(host, " ")
                THEN failed
                ELSE [ ok |-> TRUE, scheme |-> ToLowercase(scheme),
                       has_host |-> TRUE, host |-> host ]

\* extract_domain
extract_domain(host) ==
  LET parts == Split(host, ".")
      n == Len(parts)
  IN  IF \A i \in 1..Len(host) : IsDigit(CharAt(host, i)) \/ CharAt(host, i) = "."
      THEN host
      ELSE IF n >= 2
           THEN IF n > 2 /\ Len(parts[n - 1]) <= 3
                THEN IF n > 3 THEN parts[n - 2] ELSE host
                ELSE parts[n - 1]
           ELSE host

\* PatternGenerator::generate_domain_variants, a Vec
generate_domain_variants(g, domain) ==
  LET clean_domain == FilterAlphanumeric(domain)
  IN  << domain >>
        \o [ i \in 1..Len(g.domain_placeholders) |->
               Replace(g.domain_placeholders[i], "{domain}", domain) ]
        \o (IF clean_domain # domain THEN << clean_domain >> ELSE << >>)

\* the concatenation of F(s[i]), F(s[i+1]), ...
RECURSIVE FlatMap(_, _, _)
FlatMap(F(_), s, i) ==
  IF i > Len(s) THEN << >> ELSE F(s[i]) \o FlatMap(F, s, i + 1)

\* name followed by each suffix of the catalog, under a URL prefix
WithSuffixes(g, front, name) ==
  [ j \in 1..Len(g.hard_coded_suffixes) |-> front \o name \o g.hard_coded_suffixes[j] ]

\* a prefix that contains '.' is used as it is, any other with every suffix
PrefixUrls(g, front, prefix) ==
  IF Contains(prefix, ".") THEN << front \o prefix >>
  ELSE WithSuffixes(g, front, prefix)

\* PatternGenerator::generate_root_urls: its result.insert calls, in order
root_inserts(g, base_url, domain) ==
  LET front == base_url \o "/"
      OfPrefix(prefix) == PrefixUrls(g, front, prefix)
      OfVariant(variant) == WithSuffixes(g, front, variant)
  IN  [ i \in 1..Len(g.full_paths) |-> front \o g.full_paths[i] ]
        \o FlatMap(OfPrefix, g.prefixes, 1)
        \o WithSuffixes(g, front, domain)
        \o FlatMap(OfVariant, generate_domain_variants(g, domain), 1)

\* PatternGenerator::generate_root_urls: the HashSet it leaves
generate_root_urls(g, base_url, domain) == Range(root_inserts(g, base_url, domain))

\* the result.insert calls of generate_backup_dir_urls for one directory
backup_dir_inserts_of(g, base_url, domain, dir) ==
  LET front == base_url \o "/" \o dir \o "/"
      OfName(name) == WithSuffixes(g, front, name)
      OfPrefix(prefix) == PrefixUrls(g, front, prefix)
      OfPath(path) ==
        (IF StartsWith(path, ".") /\ TrimStartMatches(path, ".") # ""
         THEN << front \o TrimStartMatches(path, ".") >> ELSE << >>)
          \o << front \o path >>
  IN  WithSuffixes(g, front, domain)
        \o FlatMap(OfName, common_names, 1)
        \o FlatMap(OfPrefix, g.prefixes, 1)
        \o FlatMap(OfPath, g.full_paths, 1)
        \o FlatMap(OfName, generate_domain_variants(g, domain), 1)

\* PatternGenerator::generate_backup_dir_urls: its result.insert calls, in order
dir_inserts(g, base_url, domain) ==
  LET OfDir(dir) == backup_dir_inserts_of(g, base_url, domain, dir)
  IN  FlatMap(OfDir, g.backup_dirs, 1)

\* PatternGenerator::generate_backup_dir_urls: the HashSet it leaves
generate_backup_dir_urls(g, base_url, domain) == Range(dir_inserts(g, base_url, domain))

(***************************************************************************)
(* A HashSet keeps one copy of each element inserted, and the order in     *)
(* which it is iterated is not specified: a Vec collected from it holds    *)
(* the distinct elements in some order.  The orders tried are numbered     *)
(* 0..MaxOrder: order o rotates the order of first insertion by o \div 2   *)
(* and reverses it when o is odd.                                          *)
(***************************************************************************)
MaxOrder == 2

\* the distinct elements of a sequence, in the order of first occurrence
Distinct(s) ==
  LET indexed == [ i \in 1..Len(s) |-> << i, s[i] >> ]
      IsFirst(p) == \A j \in 1..(p[1] - 1) : s[j] # p[2]
      firsts == SelectSeq(indexed, IsFirst)
  IN  [ k \in 1..Len(firsts) |-> firsts[k][2] ]

Reverse(s) == [ i \in 1..Len(s) |-> s[Len(s) + 1 - i] ]

Rotate(s, k) ==
  IF Len(s) = 0 THEN s
  ELSE [ i \in 1..Len(s) |-> s[((i - 1 + k) % Len(s)) + 1] ]

HashOrders == 0..MaxOrder

\* HashSet::into_iter().collect::<Vec<_>>() of the set filled by the given
\* inserts, under the iteration order o
IntoVec(inserts, o) ==
  IF o % 2 = 1 THEN Reverse(Rotate(Distinct(inserts), o \div 2))
  ELSE Rotate(Distinct(inserts), o \div 2)

\* generate_urls as it would be if the backup-directory URLs were put first
generate_urls_dirs_first(g, target, o) ==
  LET url_ == UrlParse(target)
      domain == extract_domain(url_.host)
      base_url == url_.scheme \o "://" \o url_.host
      root_urls == root_inserts(g, base_url, domain)
      dir_urls == dir_inserts(g, base_url, domain)
  IN  IF ~url_.ok \/ ~url_.has_host
      THEN [ kind |-> "err", urls |-> << >>, root_urls_count |-> 0 ]
      ELSE [ kind |-> "ok",
             urls |-> IntoVec(dir_urls, o) \o IntoVec(root_urls, o),
             root_urls_count |-> Len(IntoVec(root_urls, o)) ]

\* PatternGenerator::generate_urls: Err for a URL that does not parse or has
\* no host, else the root URLs followed by the backup-directory URLs
generate_urls(g, target, o) ==
  LET url_ == UrlParse(target)
      domain == extract_domain(url_.host)
      base_url == url_.scheme \o "://" \o url_.host
      root_urls == root_inserts(g, base_url, domain)
      dir_urls == dir_inserts(g, base_url, domain)
  IN  IF ~url_.ok \/ ~url_.has_host
      THEN [ kind |-> "err", urls |-> << >>, root_urls_count |-> 0 ]
      ELSE [ kind |-> "ok",
             urls |-> IntoVec(root_urls, o) \o IntoVec(dir_urls, o),
             root_urls_count |-> Len(IntoVec(root_urls, o)) ]

\* generate_simple_backup_urls: the fallback of generate_backup_urls
simple_backup_dirs == << "backup", "bak", "old", "archive", "db", "data" >>

generate_simple_backup_urls(target, patterns) ==
  LET parsed_url == UrlParse(target)
      base_url == parsed_url.scheme \o "://" \o parsed_url.host
      InRoot(pattern) == << base_url \o "/" \o pattern >>
      InDir(dir) ==
        [ i \in 1..Len(patterns) |-> base_url \o "/" \o dir \o "/" \o patterns[i] ]
  IN  IF ~parsed_url.ok THEN << >>
      ELSE FlatMap(InRoot, patterns, 1) \o FlatMap(InDir, simple_backup_dirs, 1)

\* the generator generate_backup_urls builds from the pattern list
RECURSIVE generator_of_patterns(_, _)
generator_of_patterns(g, patterns) ==
  IF patterns = << >> THEN g
  ELSE generator_of_patterns(
         IF StartsWith(Head(patterns), ".")
         THEN [ g EXCEPT !.full_paths = Append(@, Head(patterns)) ]
         ELSE [ g EXCEPT !.prefixes = Append(@, Head(patterns)) ],
         Tail(patterns))

\* generate_backup_urls as it would be without the simplified generator: a
\* target generate_urls fails on is probed itself
generate_backup_urls_no_fallback(target, patterns, o) ==
  LET r == generate_urls(generator_of_patterns(PatternGeneratorNew, patterns), target, o)
  IN  IF r.kind = "ok" THEN r
      ELSE [ kind |-> "fallback", urls |-> << target >>, root_urls_count |-> 0 ]

\* utils::generate_backup_urls
generate_backup_urls(target, patterns, o) ==
  LET r == generate_urls(generator_of_patterns(PatternGeneratorNew, patterns), target, o)
  IN  IF r.kind = "ok" THEN r
      ELSE [ kind |-> "fallback",
             urls |-> generate_simple_backup_urls(target, patterns),
             root_urls_count |-> 0 ]

\* PatternGenerator::load_custom_patterns on the lines of a pattern file
\* (already trimmed, blank and '#' lines removed)
RECURSIVE push_custom_patterns(_, _)
push_custom_patterns(g, lines) ==
  IF lines = << >> THEN g
  ELSE push_custom_patterns(
         IF StartsWith(Head(lines), ".") \/ Contains(Head(lines), "/")
         THEN [ g EXCEPT !.full_paths = Append(@, Head(lines)) ]
         ELSE [ g EXCEPT !.prefixes = Append(@, Head(lines)) ],
         Tail(lines))

load_custom_patterns(g, lines) ==
  LET loaded == push_custom_patterns(g, lines)
  IN  IF loaded.prefixes = << >> /\ loaded.full_paths = << >>
      THEN [ loaded EXCEPT !.prefixes = << "backup", "bak" >> ]
      ELSE loaded

\* PatternGenerator::load_custom_domain_placeholders
load_custom_domain_placeholders(g, lines) ==
  [ g EXCEPT !.domain_placeholders = @ \o lines ]

(***************************************************************************)
(* Probe client: src/src/http.rs                                           *)
(***************************************************************************)

\* Option<T>: None is the empty sequence, Some(v) is << v >>
None == << >>

Some(v) == << v >>

IsSome(o) == o # << >>

\* is_backup_file_extension
is_backup_file_extension(url) ==
  LET url_lower == ToLowercase(url)
  IN  \/ \E x \in { ".zip", ".rar", ".tar", ".tar.gz", ".7z" } : EndsWith(url_lower, x)
      \/ \E x \in { ".sql", ".sql.gz", ".sql.bz2", ".sqlite", ".sqlite3", ".db", ".mdb",
                    ".dump" } : EndsWith(url_lower, x)
      \/ \E x \in { ".bak", ".old", ".backup", ".back", "_backup", "-backup", ".copy",
                    ".orig", ".original", ".txt" } : EndsWith(url_lower, x)
      \/ \E x \in { "/.git/config", "/.git/HEAD", "/.svn/entries", "/.env", "/.htpasswd",
                    "/wp-config.php.bak", "/config.php.bak" } : EndsWith(url_lower, x)
      \/ \E x \in { ".config.", "/.git/", "/.svn/" } : Contains(url_lower, x)
      \/ \E x \in { ".tmp", ".temp", ".swp", ".save", ".old.php" } : EndsWith(url_lower, x)

\* HttpClient::is_valid_backup_content_type
is_valid_backup_content_type(content_type, url) ==
  LET ct == ToLowercase(content_type)
  IN  IF EndsWith(url, ".zip") \/ EndsWith(url, ".rar") \/ EndsWith(url, ".7z")
      THEN \/ Contains(ct, "application/")
           \/ Contains(ct, "application/zip")
           \/ Contains(ct, "application/x-rar")
           \/ Contains(ct, "application/x-7z")
           \/ Contains(ct, "application/octet-stream")
      ELSE IF \/ EndsWith(url, ".gz") \/ EndsWith(url, ".tar")
              \/ EndsWith(url, ".tar.gz") \/ EndsWith(url, ".tgz")
      THEN \/ Contains(ct, "application/")
           \/ Contains(ct, "application/gzip")
           \/ Contains(ct, "application/x-tar")
           \/ Contains(ct, "application/octet-stream")
      ELSE IF EndsWith(url, ".sql") \/ EndsWith(url, ".sql.gz")
      THEN \/ Contains(ct, "text/")
           \/ Contains(ct, "application/sql")
           \/ Contains(ct, "application/octet-stream")
      ELSE IF EndsWith(url, ".db") \/ EndsWith(url, ".sqlite") \/ EndsWith(url, ".mdb")
      THEN Contains(ct, "application/") \/ Contains(ct, "application/octet-stream")
      ELSE IF EndsWith(url, ".bak") \/ Contains(url, ".backup") \/ EndsWith(url, ".old")
      THEN TRUE
      ELSE \/ EndsWith(url, ".tmp") \/ EndsWith(url, ".temp") \/ EndsWith(url, ".swp")
           \/ EndsWith(url, ".save") \/ EndsWith(url, ".old.php")

\* the value of a string of decimal digits
RECURSIVE DigitsValue(_)
DigitsValue(s) ==
  IF s = "" THEN 0
  ELSE 10 * DigitsValue(SubSeq(s, 1, Len(s) - 1))
         + (CHOOSE d \in 0..9 : ToString(d) = CharAt(s, Len(s)))

\* str::parse::<u64>().ok(): decimal digits after an optional '+'.  The
\* header values of the model stay far below 2^64.
ParseU64(s) ==
  LET digits == IF StartsWith(s, "+") THEN SubSeq(s, 2, Len(s)) ELSE s
  IN  IF digits # "" /\ \A i \in 1..Len(digits) : IsDigit(CharAt(digits, i))
      THEN Some(DigitsValue(digits))
      ELSE None

\* StatusCode::is_success, StatusCode::is_redirection
is_success(status) == 200 <= status /\ status < 300

is_redirection(status) == 300 <= status /\ status < 400

\* response.headers().get(CONTENT_LENGTH).and_then(to_str).and_then(parse)
content_length_of(resp) ==
  IF IsSome(resp.content_length) THEN ParseU64(resp.content_length[1]) ELSE None

\* the ScanResult make_request builds
ScanResult(url, status_code, content_type, content_length, verified) ==
  [ kind |-> "some", url |-> url, status_code |-> status_code,
    content_type |-> content_type, content_length |-> content_length,
    verified |-> verified ]

\* Ok(None)
OkNone ==
  [ kind |-> "none", url |-> "", status_code |-> 0, content_type |-> None,
    content_length |-> None, verified |-> FALSE ]

\* Err(e)
ErrResult ==
  [ kind |-> "err", url |-> "", status_code |-> 0, content_type |-> None,
    content_length |-> None, verified |-> FALSE ]

\* not returned yet
Pending ==
  [ kind |-> "pending", url |-> "", status_code |-> 0, content_type |-> None,
    content_length |-> None, verified |-> FALSE ]

\* on_head_response as it would be if a content type that does not fit the
\* extension rejected a 200 response
on_head_response_strict_type(url, verify_content, resp) ==
  IF resp.status = 200
  THEN IF ~is_backup_file_extension(url) THEN OkNone
       ELSE IF \/ IsSome(resp.content_type)
                  /\ ~is_valid_backup_content_type(resp.content_type[1], url)
               \/ IsSome(content_length_of(resp)) /\ content_length_of(resp)[1] < 100
            THEN OkNone
            ELSE ScanResult(url, resp.status, resp.content_type,
                            content_length_of(resp), verify_content)
  ELSE IF resp.status = 403
  THEN IF ~is_backup_file_extension(url) THEN OkNone
       ELSE ScanResult(url, resp.status, resp.content_type,
                       content_length_of(resp), FALSE)
  ELSE IF is_redirection(resp.status)
  THEN IF ~is_backup_file_extension(url) THEN OkNone
       ELSE IF IsSome(resp.location)
            THEN [ OkNone EXCEPT !.kind = "follow" ]
            ELSE OkNone
  ELSE OkNone

\* on_head_response as it would be if a 403 took the caller's verify flag
on_head_response_verified_403(url, verify_content, resp) ==
  IF resp.status = 200
  THEN IF ~is_backup_file_extension(url) THEN OkNone
       ELSE IF IsSome(content_length_of(resp)) /\ content_length_of(resp)[1] < 100
            THEN OkNone
            ELSE ScanResult(url, resp.status, resp.content_type,
                            content_length_of(resp), verify_content)
  ELSE IF resp.status = 403
  THEN IF ~is_backup_file_extension(url) THEN OkNone
       ELSE ScanResult(url, resp.status, resp.content_type,
                       content_length_of(resp), verify_content)
  ELSE IF is_redirection(resp.status)
  THEN IF ~is_backup_file_extension(url) THEN OkNone
       ELSE IF IsSome(resp.location)
            THEN [ OkNone EXCEPT !.kind = "follow" ]
            ELSE OkNone
  ELSE OkNone

\* on_head_response as it would be if a redirect were followed for any URL
on_head_response_follow_any(url, verify_content, resp) ==
  IF resp.status = 200
  THEN IF ~is_backup_file_extension(url) THEN OkNone
       ELSE IF IsSome(content_length_of(resp)) /\ content_length_of(resp)[1] < 100
            THEN OkNone
            ELSE ScanResult(url, resp.status, resp.content_type,
                            content_length_of(resp), verify_content)
  ELSE IF resp.status = 403
  THEN IF ~is_backup_file_extension(url) THEN OkNone
       ELSE ScanResult(url, resp.status, resp.content_type,
                       content_length_of(resp), FALSE)
  ELSE IF is_redirection(resp.status)
  THEN IF IsSome(resp.location)
       THEN [ OkNone EXCEPT !.kind = "follow" ]
       ELSE OkNone
  ELSE OkNone

\* on_head_response as it would be if every 2xx status were taken as 200
on_head_response_any_success(url, verify_content, resp) ==
  IF is_success(resp.status)
  THEN IF ~is_backup_file_extension(url) THEN OkNone
       ELSE IF IsSome(content_length_of(resp)) /\ content_length_of(resp)[1] < 100
            THEN OkNone
            ELSE ScanResult(url, resp.status, resp.content_type,
                            content_length_of(resp), verify_content)
  ELSE IF resp.status = 403
  THEN IF ~is_backup_file_extension(url) THEN OkNone
       ELSE ScanResult(url, resp.status, resp.content_type,
                       content_length_of(resp), FALSE)
  ELSE IF is_redirection(resp.status)
  THEN IF ~is_backup_file_extension(url) THEN OkNone
       ELSE IF IsSome(resp.location)
            THEN [ OkNone EXCEPT !.kind = "follow" ]
            ELSE OkNone
  ELSE OkNone

\* make_request on the response to its HEAD request: the result it returns,
\* or kind "follow" when it goes on to request the Location
on_head_response(url, verify_content, resp) ==
  IF resp.status = 200
  THEN IF ~is_backup_file_extension(url) THEN OkNone
       ELSE IF IsSome(content_length_of(resp)) /\ content_length_of(resp)[1] < 100
            THEN OkNone
            ELSE ScanResult(url, resp.status, resp.content_type,
                            content_length_of(resp), verify_content)
  ELSE IF resp.status = 403
  THEN IF ~is_backup_file_extension(url) THEN OkNone
       ELSE ScanResult(url, resp.status, resp.content_type,
                       content_length_of(resp), FALSE)
  ELSE IF is_redirection(resp.status)
  THEN IF ~is_backup_file_extension(url) THEN OkNone
       ELSE IF IsSome(resp.location)
            THEN [ OkNone EXCEPT !.kind = "follow" ]
            ELSE OkNone
  ELSE OkNone

\* make_request on the response to its redirect GET
on_redirect_response(url, redirect_resp) ==
  IF is_success(redirect_resp.status)
  THEN ScanResult(url, redirect_resp.status, redirect_resp.content_type,
                  content_length_of(redirect_resp), FALSE)
  ELSE OkNone

\* on_head_error as it would be if the error were passed on with `?`
on_head_error_propagated == ErrResult

\* make_request when the HEAD request fails: Ok(None)
on_head_error == OkNone

\* make_request when its redirect GET fails or times out: it falls through
\* to the final Ok(None)
on_redirect_error == OkNone

\* make_request when the HEAD request times out: Ok(None)
on_head_timeout == OkNone

\* check_url when its own timeout expires first: Ok(None)
on_check_url_timeout == OkNone

\* check_url as it would be if its timeout were the configured one, uncapped
short_timeout_uncapped(timeout_secs) == timeout_secs

\* check_url: the timeout around make_request, min(timeout_secs, 5) seconds
short_timeout(timeout_secs) == Min(timeout_secs, 5)

\* make_request: the fixed timeout of each request, in seconds
timeout_duration == 3

\* The client is built without a redirect policy (Client::builder() in
\* HttpClient::new), so send() follows redirects itself under the default
\* policy of reqwest: a 301, 302, 303, 307 or 308 response with a Location is
\* answered by a new request to that location, which keeps the method of a
\* HEAD or GET request, up to ten times.  The servers of the model redirect
\* at most MaxHops times within one send().
MaxHops == 1

AutoFollowed(resp) ==
  resp.status \in { 301, 302, 303, 307, 308 } /\ IsSome(resp.location)

\* Url::join for the locations of the model: an absolute URL is taken as it
\* is, a path is put after the scheme and host of the URL requested
JoinUrl(base, location) ==
  IF UrlParse(location).ok THEN location
  ELSE UrlParse(base).scheme \o "://" \o UrlParse(base).host \o location

(***************************************************************************)
(* State                                                                   *)
(***************************************************************************)
VARIABLES
  generator,    \* a PatternGenerator: the one last loaded or last used
  target_url,   \* the target URL given to the generator
  gen_result    \* what the last call of generate_urls / generate_backup_urls
                \* returned; kind "none" when the generator changed since

genVars == << generator, target_url, gen_result >>

VARIABLES
  url,             \* the candidate URL given to check_url
  verify_content,  \* the caller's verify_content flag
  timeout_secs,    \* HttpClient.timeout_secs, the configured timeout
  pc,              \* where check_url is: "start", "head", "redirect", "returned"
  now,             \* whole seconds since check_url was called
  sent_at,         \* the value of now when the current send() began
  hops,            \* redirects the client has followed within the current send()
  requests,        \* every request put on the wire, in order
  response,        \* Option: the response make_request got for its HEAD
  redirect_resp,   \* Option: the response make_request got for its GET
  event,           \* what ended the last send(), "" before
  request_result   \* what check_url returned, Pending before

probeVars ==
  << url, verify_content, timeout_secs, pc, now, sent_at, hops, requests,
     response, redirect_resp, event, request_result >>

VARIABLES
  config,                 \* the ScanConfig of the Scanner
  targets,                \* the targets in the order in which scan takes them
  input_targets,          \* the targets as they were given to scan
  scan_pc,                \* where scan is: "next", "root", "sleep", "backup", "done", "failed"
  clock,                  \* milliseconds since scan was called
  deadline,               \* when the running batch timeout or sleep ends
  calls,                  \* one record per call of scan_urls so far: its
                          \* semaphore, its tasks and its results
  pattern_success_rates,  \* pattern -> << successes, attempts >>
  all_results             \* the results scan has collected

scanVars ==
  << config, targets, input_targets, scan_pc, clock, deadline, calls, pattern_success_rates,
     all_results >>

VARIABLES
  main_pc,         \* where main is: "scanning", then how it ended: "saved",
                   \* "save_error", "scan_error", "timed_out"; "none" when scan
                   \* is called as a library function
  total_deadline,  \* Option: when main's timeout around scan ends
  files,           \* path -> the records of the JSON array in the file
  unwritable,      \* the paths the file system refuses to create or write
  save_errors      \* the steps of saving a discovery that have failed

mainVars == << main_pc, total_deadline, files, unwritable, save_errors >>

VARIABLES
  rate_limited_hosts,  \* HttpClient: host -> << hits, instant of the last hit >>
  throttle_factor,     \* HttpClient: the factor as a fraction << n, d >> in lowest terms
  instant,             \* seconds on the monotonic clock of Instant::now
  rate_calls,          \* the number of calls of check_rate_limiting so far
  rate_call            \* the last call of check_rate_limiting: its arguments,
                       \* the host of its URL ("" if it has none) and what it
                       \* returned

rateVars == << rate_limited_hosts, throttle_factor, instant, rate_calls, rate_call >>

\* HttpClient::warmed_up_hosts with the holder of its mutex (0: nobody), the
\* callers of warm_up_connection, and the number of HEAD requests
\* warm_up_connection has sent to each host
VARIABLES warmed_up_hosts, warmed_up_lock, warm_ups, warm_heads

warmVars == << warmed_up_hosts, warmed_up_lock, warm_ups, warm_heads >>

VARIABLES
  response_times,      \* HttpClient: host -> the latencies kept, in microseconds
  client_timeout_secs, \* HttpClient::timeout_secs of the client the calls are made on
  latency_step,        \* the n-th latency measured is n times this, in microseconds
  time_counts,         \* URL -> the calls of record_response_time made with it
  time_call            \* the last call of record_response_time or
                       \* get_adaptive_timeout: its arguments, the host of its
                       \* URL ("" if it has none) and what it returned

timeVars == << response_times, client_timeout_secs, latency_step, time_counts, time_call >>

VARIABLES
  task_urls,           \* scan_url_batch: the URLs of the batch, one task each
  task_permits,        \* the permits of the semaphore of the batch
  task_pc,             \* task -> where it is: "spawned", "check_url", "push", "ended"
  task_rates,          \* Scanner::pattern_success_rates
  task_results         \* the list the tasks push their discoveries to

taskVars == << task_urls, task_permits, task_pc, task_rates, task_results >>

VARIABLES
  current_threads,     \* Scanner::current_threads
  config_threads,      \* ScanConfig::threads of the scanner
  adjust_calls,        \* the calls of adjust_concurrency made
  last_status          \* the status_code of the last call, 0 before the first

tuneVars == << current_threads, config_threads, adjust_calls, last_status >>

clientVars == << rateVars, warmVars, timeVars, taskVars, tuneVars >>

vars == << genVars, probeVars, scanVars, mainVars, clientVars >>

(***************************************************************************)
(* The generator as a state machine: the loaders fill a PatternGenerator,  *)
(* generate_urls and generate_backup_urls are called on a target.          *)
(***************************************************************************)
MaxLines == 2

TargetPool == { "http://example.com", "https://a-b.co.uk:8443/app", "http://", "mailto:admin" }

PatternPool == { "db", ".env", "backup/site.zip" }

PlaceholderPool == { "{domain}.sql", "backups/{domain}" }

RECURSIVE SeqsUpTo(_, _)
SeqsUpTo(S, n) ==
  IF n = 0 THEN { << >> }
  ELSE SeqsUpTo(S, n - 1)
         \cup { Append(q, x) : q \in { r \in SeqsUpTo(S, n - 1) : Len(r) = n - 1 }, x \in S }

NoResult == [ kind |-> "none", urls |-> << >>, root_urls_count |-> 0 ]

GenIdle ==
  /\ generator = PatternGeneratorNew
  /\ target_url = ""
  /\ gen_result = NoResult

ScanIdle ==
  /\ config = [ threads |-> 0, timeout |-> 0, retry_count |-> 0, verify_content |-> FALSE,
                 patterns_file |-> None, output_file |-> None ]
  /\ targets = << >>
  /\ input_targets = << >>
  /\ scan_pc = "idle"
  /\ clock = 0
  /\ deadline = 0
  /\ calls = << >>
  /\ pattern_success_rates = << >>
  /\ all_results = << >>

NoRateCall == [ url_str |-> "", host |-> "", status |-> 0, limited |-> FALSE ]

\* the number of tasks that call warm_up_connection
WarmCallers == 2

NoWarmUp == [ pc |-> "idle", base_url |-> "", host |-> "", calls |-> 0 ]

RateIdle ==
  /\ rate_limited_hosts = << >>
  /\ throttle_factor = << 1, 1 >>
  /\ instant = 0
  /\ rate_calls = 0
  /\ rate_call = NoRateCall

WarmIdle ==
  /\ warmed_up_hosts = {}
  /\ warmed_up_lock = 0
  /\ warm_ups = [ k \in 1..WarmCallers |-> NoWarmUp ]
  /\ warm_heads = << >>

NoTimeCall == [ op |-> "", url_str |-> "", host |-> "", duration |-> 0, returned |-> 0 ]

TimeIdle ==
  /\ response_times = << >>
  /\ client_timeout_secs = 0
  /\ latency_step = 0
  /\ time_counts = << >>
  /\ time_call = NoTimeCall

TaskIdle ==
  /\ task_urls = << >>
  /\ task_permits = 0
  /\ task_pc = << >>
  /\ task_rates = << >>
  /\ task_results = << >>

TuneIdle ==
  /\ current_threads = 0
  /\ config_threads = 0
  /\ adjust_calls = 0
  /\ last_status = 0

ClientIdle == RateIdle /\ WarmIdle /\ TimeIdle /\ TaskIdle /\ TuneIdle

MainIdle ==
  /\ main_pc = "none"
  /\ total_deadline = None
  /\ files = << >>
  /\ unwritable = {}
  /\ save_errors = {}

ProbeIdle ==
  /\ url = ""
  /\ verify_content = FALSE
  /\ timeout_secs = 0
  /\ pc = "idle"
  /\ now = 0
  /\ sent_at = 0
  /\ hops = 0
  /\ requests = << >>
  /\ response = None
  /\ redirect_resp = None
  /\ event = ""
  /\ request_result = Pending

InitGen ==
  /\ generator = PatternGeneratorNew
  /\ target_url \in TargetPool
  /\ gen_result = NoResult
  /\ ProbeIdle
  /\ ScanIdle
  /\ MainIdle
  /\ ClientIdle

\* the number of lines loaded into the generator so far
LoadedLines ==
  Len(generator.prefixes) + Len(generator.full_paths)
    + Len(generator.domain_placeholders) - Len(domain_placeholders)

\* PatternGenerator::load_custom_patterns on a file of the given lines
LoadCustomPatterns ==
  \E lines \in SeqsUpTo(PatternPool, MaxLines) :
    /\ LoadedLines + Len(lines) <= MaxLines
    /\ generator' = load_custom_patterns(generator, lines)
    /\ gen_result' = NoResult
    /\ UNCHANGED << target_url, probeVars, clientVars, scanVars, mainVars >>

\* PatternGenerator::load_custom_domain_placeholders on a file of the given lines
LoadCustomDomainPlaceholders ==
  \E lines \in SeqsUpTo(PlaceholderPool, MaxLines) :
    /\ LoadedLines + Len(lines) <= MaxLines
    /\ generator' = load_custom_domain_placeholders(generator, lines)
    /\ gen_result' = NoResult
    /\ UNCHANGED << target_url, probeVars, clientVars, scanVars, mainVars >>

\* generator.generate_urls(target_url)
GenerateUrls ==
  \E o \in HashOrders :
    /\ gen_result.kind = "none"
    /\ gen_result' = generate_urls(generator, target_url, o)
    /\ UNCHANGED << generator, target_url, probeVars, clientVars, scanVars, mainVars >>

\* generate_backup_urls(target_url, patterns): it builds its own generator,
\* which is kept in generator
GenerateBackupUrls ==
  \E patterns \in SeqsUpTo(PatternPool, MaxLines), o \in HashOrders :
    /\ gen_result.kind = "none"
    /\ generator = PatternGeneratorNew
    /\ generator' = generator_of_patterns(PatternGeneratorNew, patterns)
    /\ gen_result' = generate_backup_urls(target_url, patterns, o)
    /\ UNCHANGED << target_url, probeVars, clientVars, scanVars, mainVars >>

NextGen ==
  \/ LoadCustomPatterns
  \/ LoadCustomDomainPlaceholders
  \/ GenerateUrls
  \/ GenerateBackupUrls

SpecGen == InitGen /\ [][NextGen]_vars

\* the two tiers of the generator's current configuration and target
BaseUrl == UrlParse(target_url).scheme \o "://" \o UrlParse(target_url).host

RootTier ==
  generate_root_urls(generator, BaseUrl, extract_domain(UrlParse(target_url).host))

DirTier ==
  generate_backup_dir_urls(generator, BaseUrl, extract_domain(UrlParse(target_url).host))

(***************************************************************************)
(* One call of HttpClient::check_url as a state machine.  The server's     *)
(* answers, transport failures and the passing of time are the             *)
(* environment's choices.                                                  *)
(***************************************************************************)
UrlPool ==
  { "http://a.com/data.sql", "http://a.com/backup.ZIP",
    "http://a.com/.git/HEAD", "http://a.com/index.html" }

TimeoutPool == { 2, 30 }

StatusPool == { 101, 200, 206, 300, 301, 302, 304, 400, 403, 404, 429, 500, 503 }

ContentTypePool == { None, Some("text/html"), Some("application/zip") }

ContentLengthPool == { None, Some("abc"), Some("99"), Some("100"), Some("5000") }

LocationPool == { None, Some("http://b.com/moved"), Some("/moved") }

\* the responses of the server: the headers make_request never reads for a
\* status are left out
Responses ==
  [ status : { 200, 206, 403 }, content_type : ContentTypePool,
    content_length : ContentLengthPool, location : { None } ]
    \cup [ status : { s \in StatusPool : ~is_redirection(s) }, content_type : { None },
           content_length : { None }, location : { None } ]
    \cup [ status : { s \in StatusPool : is_redirection(s) }, content_type : { None },
           content_length : { None }, location : LocationPool ]

InitProbe ==
  /\ GenIdle
  /\ ScanIdle
  /\ MainIdle
  /\ ClientIdle
  /\ url \in UrlPool
  /\ verify_content \in BOOLEAN
  /\ timeout_secs \in TimeoutPool
  /\ pc = "start"
  /\ now = 0
  /\ sent_at = 0
  /\ hops = 0
  /\ requests = << >>
  /\ response = None
  /\ redirect_resp = None
  /\ event = ""
  /\ request_result = Pending

Request(method, to) == [ method |-> method, url |-> to ]

\* check_url returns r
Return(r, why) ==
  /\ pc' = "returned"
  /\ request_result' = r
  /\ event' = why

\* make_request sends its HEAD request
SendHead ==
  /\ pc = "start"
  /\ pc' = "head"
  /\ sent_at' = now
  /\ hops' = 0
  /\ requests' = Append(requests, Request("HEAD", url))
  /\ UNCHANGED << genVars, scanVars, mainVars, clientVars, url, verify_content, timeout_secs, now, response,
                  redirect_resp, event, request_result >>

\* the client follows a redirect within the current send()
Follow(resp, method) ==
  /\ hops < MaxHops
  /\ hops' = hops + 1
  /\ requests' =
       Append(requests, Request(method, JoinUrl(requests[Len(requests)].url,
                                                resp.location[1])))
  /\ UNCHANGED << pc, request_result, event, sent_at, response, redirect_resp >>

\* the server answers the HEAD request in flight
HeadAnswer ==
  \E resp \in Responses :
    /\ pc = "head"
    /\ IF AutoFollowed(resp)
       THEN Follow(resp, "HEAD")
       ELSE LET r == on_head_response(url, verify_content, resp)
            IN  /\ response' = Some(resp)
                /\ UNCHANGED redirect_resp
                /\ IF r.kind # "follow"
                   THEN /\ Return(r, "head_response")
                        /\ UNCHANGED << hops, requests, sent_at >>
                   ELSE IF UrlParse(resp.location[1]).ok
                   THEN /\ pc' = "redirect"
                        /\ sent_at' = now
                        /\ hops' = 0
                        /\ requests' = Append(requests, Request("GET", resp.location[1]))
                        /\ UNCHANGED << request_result, event >>
                   ELSE \* client.get of a relative URL: send() fails at once
                        /\ Return(on_redirect_error, "redirect_error")
                        /\ UNCHANGED << hops, requests, sent_at >>
    /\ UNCHANGED << genVars, scanVars, mainVars, clientVars, url, verify_content, timeout_secs, now >>

\* the HEAD request fails (DNS, TLS, connect, read, malformed response)
HeadError ==
  /\ pc = "head"
  /\ Return(on_head_error, "head_error")
  /\ UNCHANGED << genVars, scanVars, mainVars, clientVars, url, verify_content, timeout_secs, now, sent_at, hops,
                  requests, response, redirect_resp >>

\* the 3 s timeout of the HEAD request expires
HeadTimeout ==
  /\ pc = "head"
  /\ now >= sent_at + timeout_duration
  /\ Return(on_head_timeout, "head_timeout")
  /\ UNCHANGED << genVars, scanVars, mainVars, clientVars, url, verify_content, timeout_secs, now, sent_at, hops,
                  requests, response, redirect_resp >>

\* the server answers the redirect GET in flight
RedirectAnswer ==
  \E resp \in Responses :
    /\ pc = "redirect"
    /\ IF AutoFollowed(resp)
       THEN Follow(resp, "GET")
       ELSE /\ redirect_resp' = Some(resp)
            /\ Return(on_redirect_response(url, resp), "redirect_response")
            /\ UNCHANGED << hops, requests, sent_at, response >>
    /\ UNCHANGED << genVars, scanVars, mainVars, clientVars, url, verify_content, timeout_secs, now >>

\* the redirect GET fails
RedirectError ==
  /\ pc = "redirect"
  /\ Return(on_redirect_error, "redirect_error")
  /\ UNCHANGED << genVars, scanVars, mainVars, clientVars, url, verify_content, timeout_secs, now, sent_at, hops,
                  requests, response, redirect_resp >>

\* the 3 s timeout of the redirect GET expires
RedirectTimeout ==
  /\ pc = "redirect"
  /\ now >= sent_at + timeout_duration
  /\ Return(on_redirect_error, "redirect_timeout")
  /\ UNCHANGED << genVars, scanVars, mainVars, clientVars, url, verify_content, timeout_secs, now, sent_at, hops,
                  requests, response, redirect_resp >>

\* the timeout of check_url around make_request expires
CheckUrlTimeout ==
  /\ pc \in { "start", "head", "redirect" }
  /\ now >= short_timeout(timeout_secs)
  /\ Return(on_check_url_timeout, "check_url_timeout")
  /\ UNCHANGED << genVars, scanVars, mainVars, clientVars, url, verify_content, timeout_secs, now, sent_at, hops,
                  requests, response, redirect_resp >>

\* a second passes; no timer is left behind
Tick ==
  /\ pc \in { "head", "redirect" }
  /\ now < short_timeout(timeout_secs)
  /\ now < sent_at + timeout_duration
  /\ now' = now + 1
  /\ UNCHANGED << genVars, scanVars, mainVars, clientVars, url, verify_content, timeout_secs, pc, sent_at, hops,
                  requests, response, redirect_resp, event, request_result >>

NextProbe ==
  \/ SendHead
  \/ HeadAnswer
  \/ HeadError
  \/ HeadTimeout
  \/ RedirectAnswer
  \/ RedirectError
  \/ RedirectTimeout
  \/ CheckUrlTimeout
  \/ Tick

SpecProbe == InitProbe /\ [][NextProbe]_vars

(***************************************************************************)
(* The scanner: Scanner::scan takes the targets one after the other; for   *)
(* each it builds the candidate list and calls scan_urls, which spawns one *)
(* task per URL in two batches under a semaphore of its own.               *)
(***************************************************************************)

\* scan_urls: the cap on the permits of its semaphore
max_threads == 5

\* scan_urls: the number of leading URLs taken as the root batch
root_url_limit == 200

\* scan_urls: the sleep between the two batches, in milliseconds
batch_pause_ms == 500

\* scan_url_batch: the cap on the timeout of a task, in seconds
task_timeout_cap == 10

\* scan_url_batch: the time allowed per URL of a batch, in milliseconds
per_url_time_ms == 3000

\* scan_url_batch: the cap on the timeout of a batch, in milliseconds
max_timeout_ms == 120000

\* ScanConfig::default: timeout
default_timeout == 30

\* scan: the key under which a target is grouped
domain_of(target) ==
  IF Contains(target, "://")
  THEN Split(Split(target, "://")[2], "/")[1]
  ELSE target

\* scan: the targets grouped by domain_of in a HashMap, the groups taken in
\* the order o of the map, the targets of a group in the order given
\* scan as it would be if the targets of a host were kept in a set
scan_order_distinct(ts, o) == IntoVec(ts, o)

scan_order(ts, o) ==
  LET domains == IntoVec([ i \in 1..Len(ts) |-> domain_of(ts[i]) ], o)
      Group(d) == LET In(t) == domain_of(t) = d IN SelectSeq(ts, In)
  IN  FlatMap(Group, domains, 1)

\* Scanner::extract_pattern_from_url, and the same split in
\* update_pattern_success_rate: the part after the last '/'
extract_pattern_from_url(u) == SubSeq(u, RFind(u, "/") + 1, Len(u))

\* update_pattern_success_rate as it would be if every outcome counted as a
\* success
update_pattern_success_rate_all_successes(rates, u, success) ==
  LET pattern == extract_pattern_from_url(u)
      entry == IF pattern \in DOMAIN rates THEN rates[pattern] ELSE << 0, 0 >>
  IN  [ q \in DOMAIN rates \cup { pattern } |->
          IF q = pattern THEN << entry[1] + 1, entry[2] + 1 >> ELSE rates[q] ]

\* update_pattern_success_rate as it would be if each target had a map of
\* its own: the counters of the other patterns are not kept
update_pattern_success_rate_fresh(rates, u, success) ==
  LET pattern == extract_pattern_from_url(u)
      entry == IF pattern \in DOMAIN rates THEN rates[pattern] ELSE << 0, 0 >>
  IN  [ q \in { pattern } |-> << entry[1] + (IF success THEN 1 ELSE 0), entry[2] + 1 >> ]

\* update_pattern_success_rate as it would be if it counted attempts only
update_pattern_success_rate_attempts_only(rates, u, success) ==
  LET pattern == extract_pattern_from_url(u)
      entry == IF pattern \in DOMAIN rates THEN rates[pattern] ELSE << 0, 0 >>
  IN  [ q \in DOMAIN rates \cup { pattern } |->
          IF q = pattern THEN << entry[1], entry[2] + 1 >> ELSE rates[q] ]

\* Scanner::update_pattern_success_rate
update_pattern_success_rate(rates, u, success) ==
  LET pattern == extract_pattern_from_url(u)
      entry == IF pattern \in DOMAIN rates THEN rates[pattern] ELSE << 0, 0 >>
      updated == << entry[1] + (IF success THEN 1 ELSE 0), entry[2] + 1 >>
  IN  [ q \in DOMAIN rates \cup { pattern } |->
          IF q = pattern THEN updated ELSE rates[q] ]

\* sort_urls_by_success_rate as it would be if an unseen pattern scored 0.0
score_of_unseen_zero(rates, u) ==
  LET pattern == extract_pattern_from_url(u)
  IN  IF pattern \in DOMAIN rates
      THEN IF rates[pattern][2] > 0 THEN rates[pattern] ELSE << 0, 1 >>
      ELSE << 0, 1 >>

\* sort_urls_by_success_rate: the score of a URL as a fraction << n, d >>;
\* 0.1 for a pattern not seen before
score_of(rates, u) ==
  LET pattern == extract_pattern_from_url(u)
  IN  IF pattern \in DOMAIN rates
      THEN IF rates[pattern][2] > 0 THEN rates[pattern] ELSE << 0, 1 >>
      ELSE << 1, 10 >>

\* the sort of sort_urls_by_success_rate as it would be with the comparison
\* a.partial_cmp(b): ascending by score
RECURSIVE sort_by_score_ascending(_, _)
sort_by_score_ascending(rates, us) ==
  IF us = << >> THEN << >>
  ELSE LET Below(a, b) == a[1] * b[2] < b[1] * a[2]
           Same(a, b) == a[1] * b[2] = b[1] * a[2]
           least == CHOOSE i \in 1..Len(us) :
                      \A j \in 1..Len(us) : ~Below(score_of(rates, us[j]), score_of(rates, us[i]))
           IsLeast(u) == Same(score_of(rates, u), score_of(rates, us[least]))
           NotLeast(u) == ~IsLeast(u)
       IN  SelectSeq(us, IsLeast) \o sort_by_score_ascending(rates, SelectSeq(us, NotLeast))

\* the stable sort of sort_urls_by_success_rate: the URLs of the highest
\* score in their order, then the rest sorted
RECURSIVE sort_by_score(_, _)
sort_by_score(rates, us) ==
  IF us = << >> THEN << >>
  ELSE LET Above(a, b) == a[1] * b[2] > b[1] * a[2]
           Same(a, b) == a[1] * b[2] = b[1] * a[2]
           best == CHOOSE i \in 1..Len(us) :
                     \A j \in 1..Len(us) : ~Above(score_of(rates, us[j]), score_of(rates, us[i]))
           IsBest(u) == Same(score_of(rates, u), score_of(rates, us[best]))
           NotBest(u) == ~IsBest(u)
       IN  SelectSeq(us, IsBest) \o sort_by_score(rates, SelectSeq(us, NotBest))

\* sort_urls_by_success_rate as it would be if it returned the list reversed
\* when there are no statistics
sort_urls_by_success_rate_reversed(rates, us) ==
  IF DOMAIN rates = {} THEN Reverse(us) ELSE us

\* Scanner::sort_urls_by_success_rate
sort_urls_by_success_rate(rates, us) ==
  IF DOMAIN rates = {} THEN us ELSE sort_by_score(rates, us)

\* scan_url_batch: the timeout of a batch of n URLs, in milliseconds
batch_timeout_ms(n) == Min(n * per_url_time_ms, max_timeout_ms)

\* scan_url_batch: the timeout of one task around check_url, in milliseconds
task_timeout_ms(cfg) == 1000 * Min(cfg.timeout, task_timeout_cap)

\* the host that never answers
SilentHost ==
  [ answers |-> FALSE, status |-> 0, delay_ms |-> 0, location |-> None,
    redirect_status |-> 0 ]

\* A host of the model treats every probe alike: it never answers, or it
\* answers each HEAD after delay_ms with its status and no header but the
\* Location it may send, and the GET of that Location is answered at once
\* with redirect_status.  A 300 is a redirection the client does not follow
\* by itself: make_request is handed it.
HostPool ==
  { [ answers |-> TRUE, status |-> 403, delay_ms |-> 2700, location |-> None,
      redirect_status |-> 0 ],
    [ answers |-> TRUE, status |-> 300, delay_ms |-> 2700,
      location |-> Some("http://b.com/moved"), redirect_status |-> 206 ],
    SilentHost }

\* check_url: the first of its two timeouts, in milliseconds
check_url_limit_ms(cfg) == 1000 * Min(timeout_duration, short_timeout(cfg.timeout))

\* the host answers a probe before check_url gives up
answered(cfg, host) == host.answers /\ host.delay_ms < check_url_limit_ms(cfg)

\* the hosts a call of scan_urls may meet.  A call without URLs meets none,
\* which is recorded as the host that never answers; and a host that does
\* not answer before check_url gives up is to the scan the host that never
\* answers.
HostsFor(cfg, urls) ==
  IF urls = << >> THEN { SilentHost }
  ELSE { host \in HostPool : answered(cfg, host) } \cup { SilentHost }

\* the time check_url takes on a host: the delay of the host if it answers
\* in time, else up to the first of its two timeouts
check_url_ms(cfg, host) ==
  IF answered(cfg, host) THEN host.delay_ms ELSE check_url_limit_ms(cfg)

\* make_request as it would be if it reported the redirection itself
followed_as_redirection(u, host, head) ==
  IF head.kind = "follow"
  THEN ScanResult(u, host.status, None, None, FALSE)
  ELSE head

\* make_request after the response to its HEAD request: the result it has,
\* or what the response to the GET of the Location makes of it
followed(u, host, head) ==
  IF head.kind = "follow"
  THEN on_redirect_response(u, [ status |-> host.redirect_status, content_type |-> None,
                                 content_length |-> None, location |-> None ])
  ELSE head

\* what check_url returns on a host
check_url(cfg, host, u) ==
  IF answered(cfg, host)
  THEN followed(u, host, on_head_response(u, cfg.verify_content,
                                          [ status |-> host.status, content_type |-> None,
                                            content_length |-> None,
                                            location |-> host.location ]))
  ELSE IF timeout_duration <= short_timeout(cfg.timeout)
       THEN on_head_timeout
       ELSE on_check_url_timeout

\* the task as it would be if check_url were called again retry_count times
\* within the timeout of the task
task_ms_retrying(cfg, host) ==
  Min(check_url_ms(cfg, host) * (1 + cfg.retry_count), task_timeout_ms(cfg))

\* the task of scan_url_batch: how long it holds its permit, and what it
\* has when the permit is released
task_ms(cfg, host) == Min(check_url_ms(cfg, host), task_timeout_ms(cfg))

\* the Err(_) of tokio::time::timeout around check_url
Elapsed == [ OkNone EXCEPT !.kind = "elapsed" ]

\* whether the timeout of the task ends before check_url returns.  When
\* check_url gives up at the very instant the timeout of the task is due,
\* the two timers were set a few instructions apart and the runtime may
\* find either one elapsed first: both outcomes are possible.
task_timeout_fires(cfg, host) ==
  IF check_url_ms(cfg, host) < task_timeout_ms(cfg) \/ answered(cfg, host) THEN { FALSE }
  ELSE IF check_url_ms(cfg, host) > task_timeout_ms(cfg) THEN { TRUE }
  ELSE BOOLEAN

\* the value of url_check in the task
task_result(cfg, host, u, fired) ==
  IF fired THEN Elapsed ELSE check_url(cfg, host, u)

\* the arms of the match on url_check as they would be if the Err(_) arm
\* recorded nothing
task_arms_timeout_unrecorded(rates, u, url_check) ==
  IF url_check.kind = "elapsed" THEN rates
  ELSE update_pattern_success_rate(rates, u, url_check.kind = "some")

\* the arms of the match on url_check in the task: the statistics after it
task_arms(rates, u, url_check) ==
  update_pattern_success_rate(rates, u, url_check.kind = "some")

\* utils::get_default_patterns
get_default_patterns ==
  << "backup.zip", "backup.tar.gz", "backup.sql", "backup.bak", "www.zip",
     "www.tar.gz", "site.zip", "site.tar.gz", "website.zip", "db.sql",
     "database.sql", "data.sql", "dump.sql", "backup.old", "backup.rar",
     "db.zip", "db.tar.gz" >>

\* utils::load_patterns on a file [ readable, lines ], its lines trimmed:
\* Err if the file cannot be opened, the default patterns if it holds none
load_patterns(file) ==
  LET IsPattern(line) == line # "" /\ ~StartsWith(line, "#")
      patterns == SelectSeq(file.lines, IsPattern)
  IN  IF ~file.readable THEN [ kind |-> "err", patterns |-> << >> ]
      ELSE [ kind |-> "ok",
             patterns |-> IF patterns = << >> THEN get_default_patterns ELSE patterns ]

\* scan: the patterns it loads before its loop; none without a pattern file
scan_patterns(cfg) ==
  IF IsSome(cfg.patterns_file)
  THEN load_patterns(cfg.patterns_file[1])
  ELSE [ kind |-> "ok", patterns |-> << >> ]

MaxTargets == 2

ScanTargetPool == { "http://example.com", "mailto:admin" }

\* ScanConfig::default: retry_count
default_retry_count == 3

RetryPool == { 0, default_retry_count }

\* the threads, timeout and retry_count of the configuration; with a timeout
\* of 2 s the timeout of a task and the timeout of check_url are due
\* together, and with no threads the semaphore has no permit
ScanArgPool ==
  { [ threads |-> 1, timeout |-> default_timeout, retry_count |-> 0 ],
    [ threads |-> 10, timeout |-> default_timeout,
      retry_count |-> default_retry_count ] }
    \cup { [ threads |-> 10, timeout |-> 2, retry_count |-> default_retry_count ],
           [ threads |-> 0, timeout |-> default_timeout,
             retry_count |-> default_retry_count ] }

\* the pattern file of the configuration: none, or one that cannot be opened
PatternsFilePool == { None, Some([ readable |-> FALSE, lines |-> << >> ]) }

InitScan ==
  /\ GenIdle
  /\ ProbeIdle
  /\ MainIdle
  /\ ClientIdle
  /\ config \in { [ threads |-> arg.threads, timeout |-> arg.timeout,
                    retry_count |-> arg.retry_count, verify_content |-> FALSE,
                    patterns_file |-> f, output_file |-> None ] :
                  arg \in ScanArgPool, f \in PatternsFilePool }
  /\ input_targets \in SeqsUpTo(ScanTargetPool, MaxTargets) \ { << >> }
  /\ targets \in { scan_order(input_targets, o) : o \in HashOrders }
  /\ scan_pc = "next"
  /\ clock = 0
  /\ deadline = 0
  /\ calls = << >>
  /\ pattern_success_rates = << >>
  /\ all_results = << >>

\* the future of scan is polled: scan was called as a library function, or
\* main is waiting for it
Scanning == main_pc \in { "none", "scanning" }

\* a file system after content is written to path
write(fs, path, content) ==
  [ q \in DOMAIN fs \cup { path } |-> IF q = path THEN content ELSE fs[q] ]

\* scan_urls: the permits of its semaphore
threads == Min(config.threads, max_threads)

\* the call of scan_urls that scan is waiting for
current == Len(calls)

\* the tasks of a call that hold a permit of its semaphore
InFlightOf(c) == Len(calls[c].running)

RECURSIVE SumInFlight(_)
SumInFlight(c) == IF c = 0 THEN 0 ELSE InFlightOf(c) + SumInFlight(c - 1)

\* the tasks that hold a permit and are in check_url
InFlight == SumInFlight(Len(calls))

\* the tasks of the batch scan is waiting for have all ended: join_all is ready
BatchComplete ==
  IF scan_pc = "root"
  THEN calls[current].done >= calls[current].root_url_count
  ELSE calls[current].done = Len(calls[current].urls)

\* scan: the list generate_backup_urls returns for the c-th target scanned,
\* its sets collected in the order numbered by the call
generated_urls(c) ==
  generate_backup_urls(targets[c], scan_patterns(config).patterns,
                       (c - 1) % (MaxOrder + 1)).urls

\* scan: the next target; generate_backup_urls, sort_urls_by_success_rate and
\* scan_urls up to the spawn of the root batch.  The sets of successive
\* calls are collected in successive orders of HashOrders.
ScanUrls ==
  /\ Scanning
  /\ scan_pc = "next"
  /\ scan_patterns(config).kind = "ok"
  /\ Len(calls) < Len(targets)
  /\ \E sorted_urls \in { sort_urls_by_success_rate(pattern_success_rates,
                                                    generated_urls(Len(calls) + 1)) } :
     \E host \in HostsFor(config, sorted_urls) :
       LET root_url_count == Min(Len(sorted_urls), root_url_limit)
       IN  /\ calls' = Append(calls, [ urls |-> sorted_urls,
                                       root_url_count |-> root_url_count,
                                       host |-> host,
                                       spawned |-> root_url_count,
                                       acquired |-> 0,
                                       done |-> 0,
                                       running |-> << >>,
                                       url_check |-> "",
                                       results |-> << >> ])
           /\ deadline' = clock + batch_timeout_ms(root_url_count)
  /\ scan_pc' = "root"
  /\ UNCHANGED << genVars, probeVars, clientVars, mainVars, config, targets, input_targets, clock,
                  pattern_success_rates, all_results >>

\* a spawned task of call c finds a permit of the semaphore of c free and
\* calls check_url; the tasks of a call get their permits in spawn order
Acquire(c) ==
  /\ Scanning
  /\ scan_pc \in { "root", "sleep", "backup", "next" }
  /\ calls[c].acquired < calls[c].spawned
  /\ InFlightOf(c) < threads
  /\ calls' = [ calls EXCEPT
                  ![c].acquired = @ + 1,
                  ![c].running = Append(@, [ task |-> calls[c].acquired + 1,
                                             due |-> clock + task_ms(config, calls[c].host) ]) ]
  /\ UNCHANGED << genVars, probeVars, clientVars, mainVars, config, targets, input_targets, scan_pc, clock, deadline,
                  pattern_success_rates, all_results >>

\* the first task of call c that holds a permit has its outcome
FinishDue(c) ==
  /\ Scanning
  /\ scan_pc \in { "root", "sleep", "backup", "next" }
  /\ calls[c].running # << >>
  /\ Head(calls[c].running).due <= clock

\* the end of the first running task of call c with url_check r, as call c
\* sees it: the push of a discovery, the release of the permit and its
\* hand-over to the first waiter
FinishCalls(c, r) ==
  LET waiter == calls[c].acquired < calls[c].spawned
  IN  calls' = [ calls EXCEPT
                   ![c].running =
                     IF waiter
                     THEN Append(Tail(@), [ task |-> calls[c].acquired + 1,
                                            due |-> clock + task_ms(config, calls[c].host) ])
                     ELSE Tail(@),
                   ![c].acquired = IF waiter THEN @ + 1 ELSE @,
                   ![c].done = @ + 1,
                   ![c].url_check = r.kind,
                   ![c].results = IF r.kind = "some" THEN Append(@, r) ELSE @ ]

\* a task of scan_url_batch saves its discovery: save_result_to_json writes
\* an array of this one result to the file named output_file with ".part"
\* added, created anew, and the file is then copied to output_file; a failure
\* of the first is logged, the outcome of the copy is dropped
save_discovery(result, output_file) ==
  LET temp_file == output_file \o ".part"
  IN  IF temp_file \in unwritable
      THEN /\ save_errors' = save_errors \cup { "save_result_to_json" }
           /\ UNCHANGED files
      ELSE IF output_file \in unwritable
      THEN /\ files' = write(files, temp_file, << result >>)
           /\ save_errors' = save_errors \cup { "copy" }
      ELSE /\ files' = write(write(files, temp_file, << result >>),
                             output_file, << result >>)
           /\ UNCHANGED save_errors

\* the task of call c that is due ends: it records the outcome, pushes a
\* discovery to the results of its call and drops its permit; the semaphore
\* hands a released permit to its first waiter in the release itself, so the
\* next spawned task of the call, if there is one, holds it from this instant
Finish(c) ==
  /\ FinishDue(c)
  /\ \E fired \in task_timeout_fires(config, calls[c].host) :
     LET u == calls[c].urls[Head(calls[c].running).task]
         r == task_result(config, calls[c].host, u, fired)
     IN  /\ pattern_success_rates' = task_arms(pattern_success_rates, u, r)
         /\ FinishCalls(c, r)
         /\ IF r.kind = "some" /\ IsSome(config.output_file)
            THEN save_discovery(r, config.output_file[1])
            ELSE UNCHANGED << files, save_errors >>
  /\ UNCHANGED << genVars, probeVars, clientVars, main_pc, total_deadline, unwritable, config,
                  targets, input_targets, scan_pc, clock, deadline, all_results >>

\* scan_urls after a batch: the sleep after the root batch, the return to
\* scan after the backup batch
AfterBatch ==
  IF scan_pc = "root"
  THEN /\ scan_pc' = "sleep"
       /\ deadline' = clock + batch_pause_ms
       /\ UNCHANGED all_results
  ELSE /\ scan_pc' = "next"
       /\ all_results' = all_results \o calls[current].results
       /\ UNCHANGED deadline

\* scan_url_batch: join_all is ready before the timeout
BatchDone ==
  /\ Scanning
  /\ scan_pc \in { "root", "backup" }
  /\ BatchComplete
  /\ AfterBatch
  /\ UNCHANGED << genVars, probeVars, clientVars, mainVars, config, targets, input_targets, clock, calls,
                  pattern_success_rates >>

\* scan_url_batch as it would be if its timeout ended the scan with an error
BatchTimeout_fails ==
  /\ Scanning
  /\ scan_pc \in { "root", "backup" }
  /\ ~BatchComplete
  /\ clock >= deadline
  /\ scan_pc' = "failed"
  /\ UNCHANGED << genVars, probeVars, clientVars, mainVars, config, targets, input_targets, clock, deadline, calls,
                  pattern_success_rates, all_results >>

\* scan_url_batch as it would be if join_all were awaited without a timeout
BatchTimeout_awaits ==
  /\ Scanning
  /\ scan_pc \in { "root", "backup" }
  /\ ~BatchComplete
  /\ clock >= deadline
  /\ FALSE
  /\ UNCHANGED vars

\* scan_url_batch: the timeout ends first; the tasks of the batch that have
\* not ended stay spawned
BatchTimeout ==
  /\ Scanning
  /\ scan_pc \in { "root", "backup" }
  /\ ~BatchComplete
  /\ clock >= deadline
  /\ AfterBatch
  /\ UNCHANGED << genVars, probeVars, clientVars, mainVars, config, targets, input_targets, clock, calls,
                  pattern_success_rates >>

\* scan_urls after the sleep: the backup batch is spawned if there are URLs
\* left for it, else scan_urls returns
AfterSleep ==
  /\ Scanning
  /\ scan_pc = "sleep"
  /\ clock >= deadline
  /\ IF Len(calls[current].urls) > calls[current].root_url_count
     THEN /\ calls' = [ calls EXCEPT ![current].spawned = Len(calls[current].urls) ]
          /\ deadline' = clock + batch_timeout_ms(Len(calls[current].urls)
                                                   - calls[current].root_url_count)
          /\ scan_pc' = "backup"
          /\ UNCHANGED all_results
     ELSE /\ scan_pc' = "next"
          /\ all_results' = all_results \o calls[current].results
          /\ UNCHANGED << calls, deadline >>
  /\ UNCHANGED << genVars, probeVars, clientVars, mainVars, config, targets, input_targets, clock, pattern_success_rates >>

\* scan: load_patterns fails and scan returns its error before the loop
ScanError ==
  /\ Scanning
  /\ scan_pc = "next"
  /\ scan_patterns(config).kind = "err"
  /\ scan_pc' = "failed"
  /\ UNCHANGED << genVars, probeVars, clientVars, mainVars, config, targets, input_targets, clock, deadline, calls,
                  pattern_success_rates, all_results >>

\* scan returns after the last target
ScanReturn ==
  /\ Scanning
  /\ scan_pc = "next"
  /\ scan_patterns(config).kind = "ok"
  /\ Len(calls) = Len(targets)
  /\ scan_pc' = "done"
  /\ UNCHANGED << genVars, probeVars, clientVars, mainVars, config, targets, input_targets, clock, deadline, calls,
                  pattern_success_rates, all_results >>

\* something can happen at this instant
Ready ==
  \/ IsSome(total_deadline) /\ clock >= total_deadline[1]
  \/ scan_pc = "next"
  \/ scan_pc \in { "root", "backup" } /\ (BatchComplete \/ clock >= deadline)
  \/ scan_pc = "sleep" /\ clock >= deadline
  \/ \E c \in 1..Len(calls) :
       \/ calls[c].acquired < calls[c].spawned /\ InFlightOf(c) < threads
       \/ calls[c].running # << >> /\ Head(calls[c].running).due <= clock

\* time passes up to the next instant at which something can happen
Advance ==
  /\ Scanning
  /\ scan_pc \in { "root", "sleep", "backup" }
  /\ ~Ready
  /\ LET instants == { deadline }
                       \cup (IF IsSome(total_deadline) THEN { total_deadline[1] } ELSE {})
                       \cup { Head(calls[c].running).due :
                              c \in { d \in 1..Len(calls) : calls[d].running # << >> } }
     IN  clock' = CHOOSE t \in instants : \A x \in instants : t <= x
  /\ UNCHANGED << genVars, probeVars, clientVars, mainVars, config, targets, input_targets, scan_pc, deadline, calls,
                  pattern_success_rates, all_results >>

NextScan ==
  \/ ScanUrls
  \/ \E c \in 1..Len(calls) : Acquire(c)
  \/ \E c \in 1..Len(calls) : Finish(c)
  \/ BatchDone
  \/ BatchTimeout
  \/ AfterSleep
  \/ ScanError
  \/ ScanReturn
  \/ Advance

SpecScan == InitScan /\ [][NextScan]_vars

\* the scans whose semaphore has no permit or one permit
InitScanFair == InitScan /\ config.threads <= 1

\* ScanUrls as scan_pc shows it
ScanUrlsStep ==
  /\ Scanning
  /\ scan_pc = "next"
  /\ scan_patterns(config).kind = "ok"
  /\ Len(calls) < Len(targets)
  /\ scan_pc' = "root"

\* Finish as calls shows it, whatever url_check is: Ok(None), Err(_), or a
\* discovery of the URL of the task with a status of the host
FinishStep ==
  \E c \in 1..Len(calls) :
    /\ FinishDue(c)
    /\ \E status_code \in { calls[c].host.status, calls[c].host.redirect_status } :
       \E r \in { OkNone, Elapsed,
                   ScanResult(calls[c].urls[Head(calls[c].running).task],
                              status_code, None, None, FALSE) } :
         FinishCalls(c, r)

\* the runtime polls every future that is ready and fires every timer that
\* is due: a step of scan or of a task that can be taken is taken in the
\* end.  ScanUrls is the one step that takes scan_pc from "next" to "root"
\* and Finish the one step that raises a done count, hence their fairness
\* is stated on scan_pc and on calls.
ScanFairness ==
  /\ WF_scan_pc(ScanUrlsStep)
  /\ WF_calls(FinishStep)
  /\ WF_vars(\E c \in 1..Len(calls) : Acquire(c))
  /\ WF_vars(BatchDone)
  /\ WF_vars(BatchTimeout)
  /\ WF_vars(AfterSleep)
  /\ WF_vars(ScanError)
  /\ WF_vars(ScanReturn)
  /\ WF_vars(Advance)

SpecScanFair == InitScanFair /\ [][NextScan]_vars /\ ScanFairness

(***************************************************************************)
(* main of the backer binary: it builds the ScanConfig from the command    *)
(* line, calls scan on the loaded targets under a timeout and saves what   *)
(* scan returns.  The state machine starts when load_targets has returned  *)
(* a non-empty list and scan is called.                                    *)
(***************************************************************************)
\* main: the seconds it gives the whole scan
total_timeout(timeout) == Max(timeout * 5, 60)

\* utils::save_results with a path, through save_json: the file is written
\* with the array of all results; Err if it cannot be written
save_results(results, path) ==
  IF path \in unwritable
  THEN [ kind |-> "err", files |-> files ]
  ELSE [ kind |-> "ok", files |-> write(files, path, results) ]

\* the --timeout arguments tried, with the default --threads
TimeoutArgPool == { 30, 100 }

default_threads == 10

\* the --output arguments tried, each with the paths the file system refuses
OutputArgPool ==
  { [ output |-> None, unwritable |-> {} ],
    [ output |-> Some("out.json"), unwritable |-> {} ],
    [ output |-> Some("out.json"), unwritable |-> { "out.json.part" } ],
    [ output |-> Some("out.json"), unwritable |-> { "out.json" } ] }

InitMain ==
  /\ GenIdle
  /\ ProbeIdle
  /\ \E arg \in OutputArgPool :
       /\ config \in { [ threads |-> default_threads, timeout |-> t,
                         retry_count |-> default_retry_count,
                         verify_content |-> FALSE, patterns_file |-> f,
                         output_file |-> arg.output ] :
                       t \in TimeoutArgPool, f \in PatternsFilePool }
       /\ unwritable = arg.unwritable
  /\ input_targets \in SeqsUpTo(ScanTargetPool, MaxTargets) \ { << >> }
  /\ targets \in { scan_order(input_targets, o) : o \in HashOrders }
  /\ scan_pc = "next"
  /\ clock = 0
  /\ deadline = 0
  /\ calls = << >>
  /\ pattern_success_rates = << >>
  /\ all_results = << >>
  /\ ClientIdle
  /\ main_pc = "scanning"
  /\ total_deadline = Some(1000 * total_timeout(config.timeout))
  /\ files = << >>
  /\ save_errors = {}

\* main: the timeout around scan ends before scan returns; main prints a
\* message and returns, and the process ends with its tasks
ScanTimedOut ==
  /\ main_pc = "scanning"
  /\ scan_pc \notin { "done", "failed" }
  /\ clock >= total_deadline[1]
  /\ main_pc' = "timed_out"
  /\ UNCHANGED << genVars, probeVars, clientVars, scanVars, total_deadline, files, unwritable,
                  save_errors >>

\* main: scan returns an error; main prints it and returns
ScanFailed ==
  /\ main_pc = "scanning"
  /\ scan_pc = "failed"
  /\ main_pc' = "scan_error"
  /\ UNCHANGED << genVars, probeVars, clientVars, scanVars, total_deadline, files, unwritable,
                  save_errors >>

\* main: scan returns its results; they are saved if there are any and an
\* output file was given, and the error of save_results is the error of main
SaveResults ==
  /\ main_pc = "scanning"
  /\ scan_pc = "done"
  /\ IF all_results # << >> /\ IsSome(config.output_file)
     THEN LET saved == save_results(all_results, config.output_file[1])
          IN  /\ files' = saved.files
              /\ main_pc' = IF saved.kind = "ok" THEN "saved" ELSE "save_error"
     ELSE /\ main_pc' = "saved"
          /\ UNCHANGED files
  /\ UNCHANGED << genVars, probeVars, clientVars, scanVars, total_deadline, unwritable, save_errors >>

NextMain ==
  \/ NextScan
  \/ ScanTimedOut
  \/ ScanFailed
  \/ SaveResults

SpecMain == InitMain /\ [][NextMain]_vars

(***************************************************************************)
(* The rate-limit state of HttpClient: check_rate_limiting is called with  *)
(* the URL and the status of a response, at instants that the caller       *)
(* chooses.  The f32 throttle factor is kept as an exact fraction.         *)
(***************************************************************************)
RECURSIVE GCD(_, _)
GCD(a, b) == IF b = 0 THEN a ELSE GCD(b, a % b)

\* the fraction n/d in lowest terms
Frac(n, d) == << n \div GCD(n, d), d \div GCD(n, d) >>

FracLess(a, b) == a[1] * b[2] < b[1] * a[2]

\* f32::min as it would be if it returned its first argument
FracMin_first(a, b) == a

\* f32::min and f32::max
FracMin(a, b) == IF FracLess(b, a) THEN b ELSE a

FracMax(a, b) == IF FracLess(a, b) THEN b ELSE a

\* check_rate_limiting: the hits after which the factor is raised
hit_threshold == 3

\* check_rate_limiting: the seconds within which a hit forbids a decrease
decrease_window == 300

\* get_throttle_delay: the delay in milliseconds at factor 1.0
base_delay_ms == 30

\* the host of a URL, "" if the URL does not parse or has none
HostOf(url_str) ==
  IF UrlParse(url_str).ok /\ UrlParse(url_str).has_host
  THEN UrlParse(url_str).host ELSE ""

\* check_rate_limiting as it would be if the factor were raised only after
\* more than hit_threshold hits
check_rate_limiting_late(hosts, factor, url_str, status, t) ==
  LET url_ == UrlParse(url_str)
      host == url_.host
      is_hit == status \in { 429, 503 } /\ url_.ok /\ url_.has_host
      entry == IF host \in DOMAIN hosts THEN hosts[host] ELSE << 0, t >>
      rate_limited_ ==
        IF is_hit
        THEN [ h \in DOMAIN hosts \cup { host } |->
                 IF h = host THEN << entry[1] + 1, t >> ELSE hosts[h] ]
        ELSE hosts
      can_decrease ==
        \A h \in DOMAIN rate_limited_ : ~(t - rate_limited_[h][2] < decrease_window)
  IN  IF is_hit /\ entry[1] + 1 > hit_threshold
      THEN [ hosts |-> rate_limited_,
             factor |-> FracMin(Frac(factor[1] * 3, factor[2] * 2), << 5, 1 >>),
             limited |-> TRUE ]
      ELSE [ hosts |-> rate_limited_,
             factor |-> IF can_decrease /\ FracLess(<< 1, 1 >>, factor)
                        THEN FracMax(Frac(factor[1] * 9, factor[2] * 10), << 1, 1 >>)
                        ELSE factor,
             limited |-> FALSE ]

\* check_rate_limiting as it would be if it did not look at the instants of
\* the last hits before lowering the factor
check_rate_limiting_eager(hosts, factor, url_str, status, t) ==
  LET url_ == UrlParse(url_str)
      host == url_.host
      is_hit == status \in { 429, 503 } /\ url_.ok /\ url_.has_host
      entry == IF host \in DOMAIN hosts THEN hosts[host] ELSE << 0, t >>
      rate_limited_ ==
        IF is_hit
        THEN [ h \in DOMAIN hosts \cup { host } |->
                 IF h = host THEN << entry[1] + 1, t >> ELSE hosts[h] ]
        ELSE hosts
  IN  IF is_hit /\ entry[1] + 1 >= hit_threshold
      THEN [ hosts |-> rate_limited_,
             factor |-> FracMin(Frac(factor[1] * 3, factor[2] * 2), << 5, 1 >>),
             limited |-> TRUE ]
      ELSE [ hosts |-> rate_limited_,
             factor |-> IF FracLess(<< 1, 1 >>, factor)
                        THEN FracMax(Frac(factor[1] * 9, factor[2] * 10), << 1, 1 >>)
                        ELSE factor,
             limited |-> FALSE ]

\* HttpClient::check_rate_limiting called at instant t: the table and the
\* factor it leaves and the value it returns
check_rate_limiting(hosts, factor, url_str, status, t) ==
  LET url_ == UrlParse(url_str)
      host == url_.host
      is_hit == status \in { 429, 503 } /\ url_.ok /\ url_.has_host
      entry == IF host \in DOMAIN hosts THEN hosts[host] ELSE << 0, t >>
      rate_limited_ ==
        IF is_hit
        THEN [ h \in DOMAIN hosts \cup { host } |->
                 IF h = host THEN << entry[1] + 1, t >> ELSE hosts[h] ]
        ELSE hosts
      can_decrease ==
        \A h \in DOMAIN rate_limited_ : ~(t - rate_limited_[h][2] < decrease_window)
  IN  IF is_hit /\ entry[1] + 1 >= hit_threshold
      THEN [ hosts |-> rate_limited_,
             factor |-> FracMin(Frac(factor[1] * 3, factor[2] * 2), << 5, 1 >>),
             limited |-> TRUE ]
      ELSE [ hosts |-> rate_limited_,
             factor |-> IF can_decrease /\ FracLess(<< 1, 1 >>, factor)
                        THEN FracMax(Frac(factor[1] * 9, factor[2] * 10), << 1, 1 >>)
                        ELSE factor,
             limited |-> FALSE ]

\* HttpClient::get_throttle_delay, in milliseconds
get_throttle_delay(factor) == (base_delay_ms * factor[1]) \div factor[2]

MaxRateCalls == 6

\* the URLs of the responses: a response comes from a host
RateUrlPool == { "http://a.com/data.sql", "http://b.org/backup.zip" }

RateStatusPool == { 200, 429, 503 }

\* the seconds between one call and the next
ElapsedPool == { 0, 300 }

InitRate ==
  /\ GenIdle
  /\ ProbeIdle
  /\ ScanIdle
  /\ MainIdle
  /\ ClientIdle

\* a call of check_rate_limiting, some seconds after the one before
CheckRateLimiting ==
  \E url_str \in RateUrlPool, status \in RateStatusPool, elapsed \in ElapsedPool :
    LET r == check_rate_limiting(rate_limited_hosts, throttle_factor, url_str, status,
                                 instant + elapsed)
    IN  /\ rate_calls < MaxRateCalls
        /\ instant' = instant + elapsed
        /\ rate_limited_hosts' = r.hosts
        /\ throttle_factor' = r.factor
        /\ rate_calls' = rate_calls + 1
        /\ rate_call' = [ url_str |-> url_str, host |-> HostOf(url_str),
                          status |-> status, limited |-> r.limited ]
        /\ UNCHANGED << genVars, probeVars, scanVars, mainVars, taskVars, tuneVars, warmVars, timeVars >>

NextRate == CheckRateLimiting

SpecRate == InitRate /\ [][NextRate]_vars

(***************************************************************************)
(* HttpClient::warm_up_connection                                          *)
(***************************************************************************)

\* the calls each caller makes at most
MaxWarmUps == 2

WarmUrlPool == { "http://a.com/", "http://b.org/", "mailto:admin" }

\* what becomes of the HEAD request of a warm-up within its 3 s timeout
WarmOutcomes == { "ok", "error", "timeout" }

InitWarm ==
  /\ GenIdle
  /\ ProbeIdle
  /\ ScanIdle
  /\ MainIdle
  /\ ClientIdle

\* the HEAD requests warm_up_connection has sent to host h
HeadsTo(heads, h) == IF h \in DOMAIN heads THEN heads[h] ELSE 0

\* warm_up_connection returns Ok(()) to caller k
WarmUpReturn(k) ==
  warm_ups' = [ warm_ups EXCEPT ![k] = [ NoWarmUp EXCEPT !.calls = warm_ups[k].calls + 1 ] ]

\* caller k calls warm_up_connection: a URL that does not parse or has no
\* host returns at once, another goes on to lock warmed_up_hosts
WarmUpCall(k) ==
  \E base_url \in WarmUrlPool :
    /\ warm_ups[k].pc = "idle"
    /\ warm_ups[k].calls < MaxWarmUps
    /\ IF HostOf(base_url) = ""
       THEN WarmUpReturn(k)
       ELSE warm_ups' = [ warm_ups EXCEPT ![k].pc = "lock",
                                          ![k].base_url = base_url,
                                          ![k].host = HostOf(base_url) ]
    /\ UNCHANGED << genVars, probeVars, scanVars, mainVars, taskVars, tuneVars, rateVars, timeVars,
                    warmed_up_hosts, warmed_up_lock, warm_heads >>

\* caller k gets the mutex of warmed_up_hosts: it returns, dropping the
\* guard, if the host is in the map; otherwise it sends the HEAD request
\* and awaits it with the guard alive
WarmUpLock(k) ==
  /\ warm_ups[k].pc = "lock"
  /\ warmed_up_lock = 0
  /\ IF warm_ups[k].host \in warmed_up_hosts
     THEN /\ WarmUpReturn(k)
          /\ UNCHANGED << warmed_up_lock, warm_heads >>
     ELSE /\ warm_ups' = [ warm_ups EXCEPT ![k].pc = "head" ]
          /\ warmed_up_lock' = k
          /\ warm_heads' = [ h \in DOMAIN warm_heads \cup { warm_ups[k].host } |->
                               IF h = warm_ups[k].host
                               THEN HeadsTo(warm_heads, h) + 1 ELSE warm_heads[h] ]
  /\ UNCHANGED << genVars, probeVars, scanVars, mainVars, taskVars, tuneVars, rateVars, timeVars,
                  warmed_up_hosts >>

\* the HEAD request of caller k ends, or its timeout does: the host is
\* inserted after a response, the guard is dropped at the return
WarmUpHead(k) ==
  \E outcome \in WarmOutcomes :
    /\ warm_ups[k].pc = "head"
    /\ warmed_up_hosts' = IF outcome = "ok"
                          THEN warmed_up_hosts \cup { warm_ups[k].host }
                          ELSE warmed_up_hosts
    /\ warmed_up_lock' = IF warmed_up_lock = k THEN 0 ELSE warmed_up_lock
    /\ WarmUpReturn(k)
    /\ UNCHANGED << genVars, probeVars, scanVars, mainVars, taskVars, tuneVars, rateVars, timeVars, warm_heads >>

NextWarm ==
  \E k \in 1..WarmCallers : WarmUpCall(k) \/ WarmUpLock(k) \/ WarmUpHead(k)

SpecWarm == InitWarm /\ [][NextWarm]_vars

(***************************************************************************)
(* The latencies HttpClient keeps of each host.  Durations are in          *)
(* microseconds; the latencies of the model are multiples of 2520          *)
(* microseconds, so that the average of up to ten of them is a whole       *)
(* number of microseconds, as exact as the Duration the code computes.     *)
(***************************************************************************)

\* record_response_time: the latencies kept of a host
window_size == 10

\* get_adaptive_timeout: the factor and the addend, and the lower limit
adaptive_factor == 3

adaptive_base_us == 2000000

adaptive_floor_us == 5000000

RECURSIVE SumSeq(_)
SumSeq(q) == IF q = << >> THEN 0 ELSE Head(q) + SumSeq(Tail(q))

\* record_response_time as it would be if the newest latency were removed
\* from a full window
record_response_time_drop_newest(times, url_str, duration) ==
  LET host == HostOf(url_str)
      old == IF host \in DOMAIN times THEN times[host] ELSE << >>
      pushed == Append(old, duration)
      kept == IF Len(pushed) > window_size THEN SubSeq(pushed, 1, window_size) ELSE pushed
  IN  IF host = "" THEN times
      ELSE [ h \in DOMAIN times \cup { host } |-> IF h = host THEN kept ELSE times[h] ]

\* HttpClient::record_response_time: the map after the call
record_response_time(times, url_str, duration) ==
  LET host == HostOf(url_str)
      old == IF host \in DOMAIN times THEN times[host] ELSE << >>
      pushed == Append(old, duration)
      kept == IF Len(pushed) > window_size THEN Tail(pushed) ELSE pushed
  IN  IF host = "" THEN times
      ELSE [ h \in DOMAIN times \cup { host } |-> IF h = host THEN kept ELSE times[h] ]

\* HttpClient::get_adaptive_timeout: the Duration returned, in microseconds
get_adaptive_timeout(times, timeout_secs_of_client, url_str) ==
  LET default_timeout_us == timeout_secs_of_client * 1000000
      host == HostOf(url_str)
  IN  IF host # "" /\ host \in DOMAIN times /\ times[host] # << >>
      THEN LET avg_time == SumSeq(times[host]) \div Len(times[host])
               adaptive_timeout == avg_time * adaptive_factor + adaptive_base_us
           IN  IF adaptive_timeout < adaptive_floor_us THEN adaptive_floor_us
               ELSE IF adaptive_timeout > default_timeout_us THEN default_timeout_us
               ELSE adaptive_timeout
      ELSE default_timeout_us

\* the calls of record_response_time of a run
MaxRecords == 11

TimeUrlPool == { "http://a.com/data.sql", "http://b.org/backup.zip", "mailto:admin" }

\* the calls of record_response_time made with one URL at most: enough for
\* the first URL to fill the window of its host and lose an entry
RecordQuota(url_str) ==
  IF url_str = "http://a.com/data.sql" THEN MaxRecords ELSE MaxRecords \div 10

ClientTimeoutPool == { 3, 10 }

LatencyStepPool == { 40 * 2520, 400 * 2520 }

RECURSIVE SumOver(_, _)
SumOver(f, S) ==
  IF S = {} THEN 0
  ELSE LET x == CHOOSE y \in S : TRUE IN f[x] + SumOver(f, S \ { x })

InitTime ==
  /\ GenIdle
  /\ ProbeIdle
  /\ ScanIdle
  /\ MainIdle
  /\ RateIdle
  /\ WarmIdle
  /\ TaskIdle
  /\ TuneIdle
  /\ response_times = << >>
  /\ client_timeout_secs \in ClientTimeoutPool
  /\ latency_step \in LatencyStepPool
  /\ time_counts = [ u \in TimeUrlPool |-> 0 ]
  /\ time_call = NoTimeCall

\* a response has come back from url_str and its latency is recorded
RecordResponseTime ==
  \E url_str \in TimeUrlPool :
    LET duration == (SumOver(time_counts, TimeUrlPool) + 1) * latency_step
    IN  /\ time_counts[url_str] < RecordQuota(url_str)
        /\ response_times' = record_response_time(response_times, url_str, duration)
        /\ time_counts' = [ time_counts EXCEPT ![url_str] = @ + 1 ]
        /\ time_call' = [ op |-> "record", url_str |-> url_str, host |-> HostOf(url_str),
                          duration |-> duration, returned |-> 0 ]
        /\ UNCHANGED << genVars, probeVars, scanVars, mainVars, taskVars, tuneVars, rateVars, warmVars,
                        client_timeout_secs, latency_step >>

\* the timeout of a request to url_str is asked for
GetAdaptiveTimeout ==
  \E url_str \in TimeUrlPool :
    /\ time_call' = [ op |-> "adaptive", url_str |-> url_str, host |-> HostOf(url_str),
                      duration |-> 0,
                      returned |-> get_adaptive_timeout(response_times, client_timeout_secs,
                                                        url_str) ]
    /\ UNCHANGED << genVars, probeVars, scanVars, mainVars, taskVars, tuneVars, rateVars, warmVars,
                    response_times, client_timeout_secs, latency_step, time_counts >>

NextTime == RecordResponseTime \/ GetAdaptiveTimeout

SpecTime == InitTime /\ [][NextTime]_vars

(***************************************************************************)
(* The tasks of scan_url_batch, statement by statement                     *)
(*                                                                         *)
(* The tasks run on the threads of the runtime: between the statements of  *)
(* one task the others take steps.  A task waits for a permit, awaits      *)
(* check_url, updates the statistics in the arm of its outcome and, in the *)
(* Ok(Some) arm, locks the list and pushes; its permit is dropped when it  *)
(* ends.                                                                   *)
(***************************************************************************)

MaxTasks == 3

MaxPermits == 2

TaskUrlPool == { "http://a.com/backup.zip", "http://a.com/db.sql" }

\* what url_check is matched against
UrlCheckPool == { "some", "none", "err", "elapsed" }

Tasks == 1..Len(task_urls)

\* the tasks that hold a permit
Permitted == { t \in Tasks : task_pc[t] \in { "check_url", "push" } }

InitTask ==
  /\ GenIdle
  /\ ProbeIdle
  /\ ScanIdle
  /\ MainIdle
  /\ RateIdle
  /\ WarmIdle
  /\ TimeIdle
  /\ TuneIdle
  /\ task_urls \in SeqsUpTo(TaskUrlPool, MaxTasks) \ { << >> }
  /\ task_permits \in 1..MaxPermits
  /\ task_pc = [ t \in 1..Len(task_urls) |-> "spawned" ]
  /\ task_rates = << >>
  /\ task_results = << >>

\* semaphore.acquire() returns in task t: the permits go out in the order
\* the tasks asked for them, which is the order they were spawned in
TaskAcquire(t) ==
  /\ task_pc[t] = "spawned"
  /\ \A earlier \in 1..(t - 1) : task_pc[earlier] # "spawned"
  /\ Cardinality(Permitted) < task_permits
  /\ task_pc' = [ task_pc EXCEPT ![t] = "check_url" ]
  /\ UNCHANGED << genVars, probeVars, scanVars, mainVars, rateVars, warmVars, timeVars,
                  tuneVars, task_urls, task_permits, task_rates, task_results >>

\* the timeout around check_url returns in task t and the arm of url_check
\* updates the statistics; every arm but Ok(Some) ends the task
TaskMatch(t) ==
  /\ task_pc[t] = "check_url"
  /\ \E kind \in UrlCheckPool :
       /\ task_rates' = task_arms(task_rates, task_urls[t], [ kind |-> kind ])
       /\ task_pc' = [ task_pc EXCEPT ![t] = IF kind = "some" THEN "push" ELSE "ended" ]
  /\ UNCHANGED << genVars, probeVars, scanVars, mainVars, rateVars, warmVars, timeVars,
                  tuneVars, task_urls, task_permits, task_results >>

\* task t, in the Ok(Some) arm, pushes its discovery and ends
TaskPush(t) ==
  /\ task_pc[t] = "push"
  /\ task_results' = Append(task_results, task_urls[t])
  /\ task_pc' = [ task_pc EXCEPT ![t] = "ended" ]
  /\ UNCHANGED << genVars, probeVars, scanVars, mainVars, rateVars, warmVars, timeVars,
                  tuneVars, task_urls, task_permits, task_rates >>

NextTask ==
  \/ \E t \in Tasks : TaskAcquire(t)
  \/ \E t \in Tasks : TaskMatch(t)
  \/ \E t \in Tasks : TaskPush(t)

SpecTask == InitTask /\ [][NextTask]_vars

(***************************************************************************)
(* Scanner::adjust_concurrency                                             *)
(***************************************************************************)

\* Scanner::adjust_concurrency on threads_now threads under a configuration
\* of configured threads: what it leaves in current_threads.  The products
\* are taken in usize and the divisions round down.
adjust_concurrency(threads_now, configured, status) ==
  IF status = 429 \/ status = 503
  THEN Max((threads_now * 3) \div 4, 1)
  ELSE IF threads_now < configured /\ status < 400
       THEN Min((threads_now * 5) \div 4, configured)
       ELSE threads_now

MaxAdjustCalls == 8

ConfigThreadsPool == { 1, 4, 10 }

AdjustStatusPool == { 200, 302, 404, 429, 503 }

\* Scanner::new: current_threads starts at config.threads
InitTune ==
  /\ GenIdle
  /\ ProbeIdle
  /\ ScanIdle
  /\ MainIdle
  /\ RateIdle
  /\ WarmIdle
  /\ TimeIdle
  /\ TaskIdle
  /\ config_threads \in ConfigThreadsPool
  /\ current_threads = config_threads
  /\ adjust_calls = 0
  /\ last_status = 0

\* a call of adjust_concurrency
AdjustConcurrency ==
  /\ adjust_calls < MaxAdjustCalls
  /\ \E status \in AdjustStatusPool :
       /\ current_threads' = adjust_concurrency(current_threads, config_threads, status)
       /\ last_status' = status
  /\ adjust_calls' = adjust_calls + 1
  /\ UNCHANGED << genVars, probeVars, scanVars, mainVars, rateVars, warmVars, timeVars,
                  taskVars, config_threads >>

NextTune == AdjustConcurrency

SpecTune == InitTune /\ [][NextTune]_vars

(***************************************************************************)
(* Properties of the scanner                                               *)
(***************************************************************************)

\* C1: at every instant of scan the number of tasks that hold a permit and
\* are in check_url is at most min(config.threads, 5), over any number of
\* targets and also after a batch timeout has left tasks behind.
C1_InFlightBound == scan_pc # "done" => InFlight <= Min(config.threads, max_threads)

(***************************************************************************)
(* Properties of the generator                                             *)
(***************************************************************************)

\* C8: the list returned by generate_urls contains no URL twice, for every
\* target and every configuration of prefixes, full paths and placeholders.
C8_NoDuplicates ==
  gen_result.kind = "ok" => Cardinality(Range(gen_result.urls)) = Len(gen_result.urls)

\* C9: the set built by generate_root_urls and the set built by
\* generate_backup_dir_urls have no URL in common.
C9_TiersDisjoint ==
  gen_result.kind = "ok" => RootTier \cap DirTier = {}

\* C10: the list returned by generate_urls is the root tier followed by the
\* directory tier: its first root_urls_count entries are the root-tier URLs,
\* one entry each, and the entries after them are the directory-tier URLs, so
\* every root-tier entry has a smaller index than every directory-tier entry.
C10_RootFirst ==
  gen_result.kind = "ok"
    => LET urls == gen_result.urls
           n == gen_result.root_urls_count
           R == RootTier
           D == DirTier
       IN  /\ n = Cardinality(R)
           /\ Len(urls) = n + Cardinality(D)
           /\ Range(SubSeq(urls, 1, n)) = R
           /\ Range(SubSeq(urls, n + 1, Len(urls))) = D

\* C10 witness: a list with both tiers, built from loaded patterns
C10_Witness ==
  /\ gen_result.kind = "ok"
  /\ generator.prefixes # << >>
  /\ generator.full_paths # << >>
  /\ 0 < gen_result.root_urls_count
  /\ gen_result.root_urls_count < Len(gen_result.urls)

(***************************************************************************)
(* Properties of the probe client                                          *)
(***************************************************************************)

\* make_request has classified the response to its HEAD request
HeadClassified == pc = "returned" /\ event = "head_response"

\* the number of GET requests put on the wire
GetCount == Cardinality({ i \in 1..Len(requests) : requests[i].method = "GET" })

\* C2: a 200 response on a URL of the backup-file catalog is a discovery
\* exactly when Content-Length is absent, does not parse, or is at least 100;
\* the discovery carries status 200, the candidate URL, the headers and the
\* caller's verify_content flag, whatever the Content-Type.
C2_Status200 ==
  (HeadClassified /\ response[1].status = 200 /\ is_backup_file_extension(url))
    => LET length == response[1].content_length
           small == IsSome(length) /\ IsSome(ParseU64(length[1]))
                      /\ ParseU64(length[1])[1] < 100
       IN  /\ request_result.kind = (IF small THEN "none" ELSE "some")
           /\ ~small => /\ request_result.verified = verify_content
                        /\ request_result.status_code = 200
                        /\ request_result.url = url
                        /\ request_result.content_type = response[1].content_type

\* C2 witness: a discovery on a 200 response whose Content-Type does not fit
\* the extension, with the verify flag set
C2_Witness ==
  /\ HeadClassified
  /\ response[1].status = 200
  /\ is_backup_file_extension(url)
  /\ IsSome(response[1].content_type)
  /\ ~is_valid_backup_content_type(response[1].content_type[1], url)
  /\ response[1].content_length = Some("100")
  /\ verify_content
  /\ request_result.kind = "some"

\* C3: a 403 response on a URL of the catalog is a discovery with status 403
\* and verified = false, whatever the verify flag and the Content-Length.
C3_Status403 ==
  (HeadClassified /\ response[1].status = 403 /\ is_backup_file_extension(url))
    => /\ request_result.kind = "some"
       /\ request_result.status_code = 403
       /\ request_result.verified = FALSE
       /\ request_result.url = url

\* C3 witness: a 403 with a small Content-Length and the verify flag set
C3_Witness ==
  /\ HeadClassified
  /\ response[1].status = 403
  /\ is_backup_file_extension(url)
  /\ verify_content
  /\ response[1].content_length = Some("99")
  /\ request_result.kind = "some"

C5_OneHop ==
  (/\ pc = "returned"
   /\ is_backup_file_extension(url)
   /\ IsSome(response)
   /\ is_redirection(response[1].status)
   /\ IsSome(response[1].location))
    => /\ GetCount = 1
       /\ Len(requests) <= 2
       /\ request_result.kind
            = (IF IsSome(redirect_resp) /\ is_success(redirect_resp[1].status)
               THEN "some" ELSE "none")
       /\ request_result.kind = "some"
            => request_result.url = url /\ request_result.verified = FALSE

\* C6: a response with a status other than 200, 403 and 3xx is no discovery,
\* also on a URL of the catalog.
C6_OtherStatus ==
  (/\ HeadClassified
   /\ response[1].status \notin { 200, 403 }
   /\ ~is_redirection(response[1].status))
    => request_result.kind = "none"

\* C6 witness: a 206 with a large Content-Length on a URL of the catalog
C6_Witness ==
  /\ HeadClassified
  /\ is_backup_file_extension(url)
  /\ response[1].status = 206
  /\ response[1].content_length = Some("5000")
  /\ request_result.kind = "none"

\* C7: check_url never returns Err; a failed HEAD request, its 3 s timeout
\* and the timeout of check_url all give Ok(None).
C7_NeverErr ==
  /\ request_result.kind # "err"
  /\ (pc = "returned" /\ event \in { "head_error", "head_timeout", "check_url_timeout" })
       => request_result.kind = "none"

\* C7 witness: check_url has returned after a transport failure of the HEAD
C7_Witness == pc = "returned" /\ event = "head_error" /\ request_result.kind = "none"

(***************************************************************************)
(* Properties of the two phases of scan_urls                               *)
(***************************************************************************)

\* scan_urls: the list handed to the first scan_url_batch of call c
scan_root_urls(c) == SubSeq(calls[c].urls, 1, calls[c].root_url_count)

\* scan_urls: the list handed to the second scan_url_batch of call c
scan_backup_urls(c) ==
  SubSeq(calls[c].urls, calls[c].root_url_count + 1, Len(calls[c].urls))

\* the generator scan builds for its patterns
ScanGenerator == generator_of_patterns(PatternGeneratorNew, scan_patterns(config).patterns)

\* the two tiers of that generator for a target that parses and has a host
ScanRootTier(target) ==
  LET url_ == UrlParse(target)
  IN  generate_root_urls(ScanGenerator, url_.scheme \o "://" \o url_.host,
                         extract_domain(url_.host))

ScanDirTier(target) ==
  LET url_ == UrlParse(target)
  IN  generate_backup_dir_urls(ScanGenerator, url_.scheme \o "://" \o url_.host,
                               extract_domain(url_.host))

\* C11: when scan_urls has just handed the first list of a target to
\* scan_url_batch, that list holds exactly the root-tier URLs of the
\* generator for the target, and the list kept for the second phase holds
\* exactly its directory-tier URLs.
C11_PhasesAreTiers ==
  (scan_pc = "root" /\ calls[current].acquired = 0
     /\ UrlParse(targets[current]).ok /\ UrlParse(targets[current]).has_host)
    => /\ Range(scan_root_urls(current)) = ScanRootTier(targets[current])
       /\ Range(scan_backup_urls(current)) = ScanDirTier(targets[current])

\* C13: for target http://example.com scanned with no pattern file
\* configured, the list scan_urls receives contains
\* http://example.com/backup.zip, a root-tier URL of the generator, and
\* http://example.com/backup/backup.zip, a directory-tier URL of it.
C13_DefaultCandidates ==
  (scan_pc = "root" /\ calls[current].acquired = 0
     /\ targets[current] = "http://example.com" /\ ~IsSome(config.patterns_file))
    => /\ "http://example.com/backup.zip"
            \in ScanRootTier(targets[current]) \cap Range(calls[current].urls)
       /\ "http://example.com/backup/backup.zip"
            \in ScanDirTier(targets[current]) \cap Range(calls[current].urls)

(***************************************************************************)
(* Properties of extract_domain                                            *)
(***************************************************************************)

\* C12: for the host of the target generate_urls was called with,
\* extract_domain returns the host when it is a literal IP; otherwise the
\* third-from-last label when the second-to-last label has at most 3
\* characters and there are at least 4 labels, and the second-to-last label
\* in every other case.
C12_ExtractDomain ==
  gen_result.kind = "ok"
    => LET host == UrlParse(target_url).host
           parts == Split(host, ".")
           n == Len(parts)
       IN  extract_domain(host) =
             IF \A i \in 1..Len(host) : IsDigit(CharAt(host, i)) \/ CharAt(host, i) = "."
             THEN host
             ELSE IF n >= 4 /\ Len(parts[n - 1]) <= 3 THEN parts[n - 2]
             ELSE IF n >= 2 THEN parts[n - 1]
             ELSE host

(***************************************************************************)
(* Properties of the ordering by pattern statistics                        *)
(***************************************************************************)

\* scan has just taken a new target and handed its list to scan_urls
NewCall == Len(calls') = Len(calls) + 1

\* the positions of the list us whose pattern key has no entry in rates
UnseenAt(rates, us) ==
  { i \in 1..Len(us) : extract_pattern_from_url(us[i]) \notin DOMAIN rates }

\* the positions of the list us whose pattern key has attempts and no
\* success in rates
FailedAt(rates, us) ==
  { i \in 1..Len(us) :
      LET pattern == extract_pattern_from_url(us[i])
      IN  pattern \in DOMAIN rates /\ rates[pattern][1] = 0 /\ rates[pattern][2] > 0 }

\* C14: when the pattern statistics are empty as scan takes a target, the
\* list scan_urls dispatches from is the list generate_backup_urls returned,
\* in the same order.
C14_EmptyStatsKeepOrder ==
  [][ (NewCall /\ DOMAIN pattern_success_rates = {})
        => calls'[Len(calls')].urls = generated_urls(Len(calls')) ]_vars

\* C14 witness: a non-empty list was handed over with empty statistics
C14_Witness ==
  /\ Len(calls) = 1
  /\ calls[1].acquired = 0
  /\ Len(calls[1].urls) > 1
  /\ DOMAIN pattern_success_rates = {}

\* C15: the score of a URL is successes/attempts of its pattern key when the
\* key has attempts and 1/10 when the key is unseen, a key with no success
\* scores below an unseen key, and in the list sorted for a new target every
\* URL whose key has attempts and no success comes after every URL whose key
\* is unseen.
C15_FailedAfterUnseen ==
  [][ NewCall
        => \A us \in { calls'[Len(calls')].urls } :
           \A unseen \in { UnseenAt(pattern_success_rates, us) } :
           \A failed \in { FailedAt(pattern_success_rates, us) } :
             /\ \A i \in unseen : score_of(pattern_success_rates, us[i]) = << 1, 10 >>
             /\ \A j \in failed :
                  \A score \in { score_of(pattern_success_rates, us[j]) } :
                    /\ score = pattern_success_rates[extract_pattern_from_url(us[j])]
                    /\ score[1] * 10 < 1 * score[2]
             /\ \A i \in unseen : \A j \in failed : i < j ]_vars

\* C15 witness: a list sorted with statistics that holds URLs of unseen keys
\* and URLs of keys with only failed attempts
C15_Witness ==
  /\ Len(calls) = 2
  /\ calls[2].acquired = 0
  /\ scan_pc = "root"
  /\ UnseenAt(pattern_success_rates, calls[2].urls) # {}
  /\ FailedAt(pattern_success_rates, calls[2].urls) # {}

\* the URLs of the list us whose score under rates equals the score t
WithScore(rates, us, t) ==
  LET Same(u) == score_of(rates, u)[1] * t[2] = t[1] * score_of(rates, u)[2]
  IN  SelectSeq(us, Same)

\* C24: when the pattern statistics are not empty as scan takes a target,
\* the list handed to scan_urls is a permutation of the generated list, its
\* scores never increase along the list, and the URLs of one score are in
\* the order the generator gave them.
C24_SortedStable ==
  [][ (NewCall /\ DOMAIN pattern_success_rates # {})
        => \A rates \in { pattern_success_rates } :
           \A input \in { generated_urls(Len(calls')) } :
           \A us \in { calls'[Len(calls')].urls } :
           \A scores \in { [ i \in 1..Len(us) |-> score_of(rates, us[i]) ] } :
             /\ Len(us) = Len(input)
             /\ \A t \in Range(scores) \cup { score_of(rates, input[i]) : i \in 1..Len(input) } :
                  WithScore(rates, us, t) = WithScore(rates, input, t)
             /\ \A i \in 1..(Len(us) - 1) :
                  scores[i][1] * scores[i + 1][2] >= scores[i + 1][1] * scores[i][2] ]_vars

\* C24 witness: a list was sorted with statistics under which it holds URLs
\* of different scores, and the sort moved a URL
C24_Witness ==
  /\ Len(calls) = 2
  /\ calls[2].acquired = 0
  /\ scan_pc = "root"
  /\ DOMAIN pattern_success_rates # {}
  /\ Cardinality({ score_of(pattern_success_rates, calls[2].urls[i]) : i \in 1..Len(calls[2].urls) }) > 1
  /\ calls[2].urls # generated_urls(2)

\* scan_urls spawns the tasks of its second batch in this step
BackupDispatch == scan_pc = "sleep" /\ scan_pc' = "backup"

\* C25: the tasks of a batch are spawned in the order the priority sort gives
\* under the statistics of the moment the batch is spawned; for the second
\* batch of a target these include the outcomes of its first batch.
C25_TierSortedAtDispatch ==
  [][ /\ NewCall
        => \A call \in { calls'[Len(calls')] } :
           \A tier \in { SubSeq(call.urls, 1, call.root_url_count) } :
             tier = sort_urls_by_success_rate(pattern_success_rates, tier)
      /\ BackupDispatch
        => \A tier \in { scan_backup_urls(current) } :
             tier = sort_urls_by_success_rate(pattern_success_rates, tier) ]_vars

\* C26: the statistics are empty when scan starts, and every step that
\* changes them leaves every pattern key with at least one attempt and no
\* more successes than attempts, removes no key and lowers no counter, a
\* new target included; and the list of every target is sorted with the
\* statistics as the targets before it left them.
C26_StatisticsGrowAndAreShared ==
  [][ /\ \/ pattern_success_rates' = pattern_success_rates
         \/ \A old \in { pattern_success_rates } :
            \A new \in { pattern_success_rates' } :
            \A keys \in { DOMAIN new } :
              /\ \A key \in keys : new[key][2] >= 1 /\ new[key][1] <= new[key][2]
              /\ \A key \in DOMAIN old :
                   /\ key \in keys
                   /\ new[key][1] >= old[key][1]
                   /\ new[key][2] >= old[key][2]
      /\ NewCall
           => \A input \in { generated_urls(Len(calls')) } :
                /\ pattern_success_rates' = pattern_success_rates
                /\ calls'[Len(calls')].urls =
                     sort_urls_by_success_rate(pattern_success_rates, input) ]_vars

\* C26 witness: the list of the second target was sorted with counters that
\* tasks of the first target wrote, successes among them
C26_Witness ==
  /\ Len(calls) = 2
  /\ calls[2].acquired = 0
  /\ calls[1].done > 0
  /\ \E key \in DOMAIN pattern_success_rates : pattern_success_rates[key][1] >= 1
  /\ calls[2].urls # generated_urls(2)

\* the calls of scan_urls one of whose tasks ends in this step
EndingCalls ==
  { c \in 1..Len(calls) : Len(calls') = Len(calls) /\ calls'[c].done = calls[c].done + 1 }

\* C16: a step in which a probe task ends changes the counters of the pattern
\* key of the task's URL, the part after its last '/', and no others: attempts
\* grows by 1, successes grows by 1 if the task pushed a discovery and stays
\* otherwise; a step in which no task ends leaves every counter as it was.
C16_CountersOncePerTask ==
  [][ IF EndingCalls = {}
      THEN pattern_success_rates' = pattern_success_rates
      ELSE \A c \in EndingCalls :
           \A key \in { extract_pattern_from_url(calls[c].urls[Head(calls[c].running).task]) } :
           \A old \in { IF key \in DOMAIN pattern_success_rates
                        THEN pattern_success_rates[key] ELSE << 0, 0 >> } :
             /\ Cardinality(EndingCalls) = 1
             /\ DOMAIN pattern_success_rates' = DOMAIN pattern_success_rates \cup { key }
             /\ pattern_success_rates'[key][2] = old[2] + 1
             /\ pattern_success_rates'[key][1] =
                  IF Len(calls'[c].results) = Len(calls[c].results) + 1
                  THEN old[1] + 1 ELSE old[1]
             /\ \A q \in DOMAIN pattern_success_rates \ { key } :
                  pattern_success_rates'[q] = pattern_success_rates[q] ]_vars

\* C16 witness: tasks have ended with a discovery and without one for the
\* same pattern key
C16_Witness ==
  \E key \in DOMAIN pattern_success_rates :
    /\ pattern_success_rates[key][1] >= 1
    /\ pattern_success_rates[key][2] > pattern_success_rates[key][1]

\* C27: in a step in which the timeout of one task around check_url ends,
\* the pattern key of the task's URL gets one more attempt and no more
\* successes, no discovery is pushed, the permit of the task is free again
\* or held by the next task waiting for it, every other task that held a
\* permit still holds it with the same due time, and the tasks and results
\* of the other calls are as they were.
C27_TaskTimeoutIsLocal ==
  [][ \A c \in EndingCalls :
        calls'[c].url_check = "elapsed"
          => \A before \in { calls[c] } :
             \A after \in { calls'[c] } :
             \A key \in { extract_pattern_from_url(before.urls[Head(before.running).task]) } :
             \A old \in { IF key \in DOMAIN pattern_success_rates
                          THEN pattern_success_rates[key] ELSE << 0, 0 >> } :
               /\ key \in DOMAIN pattern_success_rates'
               /\ pattern_success_rates'[key] = << old[1], old[2] + 1 >>
               /\ after.results = before.results
               /\ all_results' = all_results
               /\ after.spawned = before.spawned
               /\ \/ /\ after.running = Tail(before.running)
                     /\ after.acquired = before.acquired
                     /\ before.acquired = before.spawned
                  \/ /\ Len(after.running) = Len(before.running)
                     /\ SubSeq(after.running, 1, Len(after.running) - 1) = Tail(before.running)
                     /\ after.running[Len(after.running)].task = before.acquired + 1
                     /\ after.acquired = before.acquired + 1
               /\ \A d \in (1..Len(calls)) \ { c } : calls'[d] = calls[d]
               /\ scan_pc' = scan_pc ]_vars

\* C27 witness: the timeout of a task has ended while other tasks of its
\* batch held permits, and tasks after it have ended with what check_url
\* returned
C27_Witness ==
  \E c \in 1..Len(calls) :
    /\ calls[c].url_check = "elapsed"
    /\ InFlightOf(c) > 1
    /\ calls[c].done > 1
    /\ calls[c].acquired < calls[c].spawned

\* C28: check_url has returned or is still within min(timeout_secs, 5)
\* seconds of its start, and when timeout_secs > 5 the timeout of the task
\* around it, due min(timeout_secs, 10) seconds after the same start, is
\* not yet due at any moment up to and including the return of check_url.
C28_TightestBoundGoverns ==
  /\ now <= Min(timeout_secs, 5)
  /\ timeout_secs > 5 => now < Min(timeout_secs, task_timeout_cap)

\* C28 witness: with a timeout above 5 s, check_url gave up after 5 s while
\* the GET of a manual redirect was in flight
C28_Witness ==
  /\ pc = "returned"
  /\ event = "check_url_timeout"
  /\ timeout_secs > 5
  /\ now = 5
  /\ Len(requests) > 1

\* C34: when generate_urls returns an error for a target, because the
\* target does not parse or has no host, scan hands the list of the
\* simplified generator, sorted, to scan_urls and goes on; scan fails only
\* before its first target, on its pattern file, and returns only after it
\* has taken every target.
C34_GenerationFailureIsNotFatal ==
  [][ /\ NewCall
        => \A target \in { targets[Len(calls')] } :
           \A patterns \in { scan_patterns(config).patterns } :
             generate_urls(ScanGenerator, target, 0).kind = "err"
               => /\ ~UrlParse(target).ok \/ ~UrlParse(target).has_host
                  /\ calls'[Len(calls')].urls
                       = sort_urls_by_success_rate(pattern_success_rates,
                                                   generate_simple_backup_urls(target, patterns))
                  /\ scan_pc' = "root"
      /\ scan_pc' = "failed" => calls = << >> /\ scan_patterns(config).kind = "err"
      /\ (scan_pc' = "done" /\ scan_pc # "done") => Len(calls) = Len(targets) ]_vars

\* C34 witness: scan has returned Ok; its first target had no host and got
\* the list of the simplified generator, its second target was probed
C34_Witness ==
  /\ scan_pc = "done"
  /\ Len(calls) = 2
  /\ generate_urls(ScanGenerator, targets[1], 0).kind = "err"
  /\ calls[1].urls = generate_simple_backup_urls(targets[1], scan_patterns(config).patterns)
  /\ calls[2].done > 0

\* how often target t is in the list ts
TimesIn(ts, t) == Cardinality({ i \in 1..Len(ts) : ts[i] = t })

\* C35: the order in which scan takes the targets holds every target as
\* often as the input does, with the targets of one host string next to each
\* other; scan takes the targets of that order one by one, the next only
\* when scan_urls has returned for the one before, and returns only when it
\* has taken them all; and the results of scan change only when scan_urls
\* returns, by the list it returns added at the end.
C35_EveryTargetOnce ==
  [][ /\ \A t \in Range(input_targets) \cup Range(targets) :
           TimesIn(targets, t) = TimesIn(input_targets, t)
      /\ \A i, j, k \in 1..Len(targets) :
           (i < j /\ j < k /\ domain_of(targets[i]) = domain_of(targets[k]))
             => domain_of(targets[j]) = domain_of(targets[i])
      /\ targets' = targets /\ input_targets' = input_targets
      /\ Len(calls') # Len(calls)
           => /\ scan_pc = "next"
              /\ Len(calls') = Len(calls) + 1
              /\ Len(calls') <= Len(targets)
              /\ SubSeq(calls', 1, Len(calls)) = calls
      /\ (scan_pc' = "done" /\ scan_pc # "done") => Len(calls) = Len(targets)
      /\ all_results' # all_results
           => /\ scan_pc \in { "sleep", "backup" }
              /\ scan_pc' = "next"
              /\ all_results' = all_results \o calls[current].results ]_vars

\* C35 witness: scan has returned after one target given twice, with the
\* results of both calls of scan_urls
C35_Witness ==
  /\ scan_pc = "done"
  /\ Len(input_targets) = 2
  /\ input_targets[1] = input_targets[2]
  /\ Len(calls) = 2
  /\ calls[1].done > 0 /\ calls[2].done > 0
  /\ Len(all_results) > Len(calls[1].results)

\* C36: a task calls check_url once: when a task ends, whatever it ends
\* with, its candidate is not among the tasks that hold a permit afterwards,
\* and a task that starts is the next candidate in spawn order; and neither
\* the time a task takes nor what it pushes depends on retry_count: both
\* are what they would be under any other retry_count.
C36_OneAttemptWhateverRetryCount ==
  [][ Len(calls') = Len(calls)
        => \A c \in 1..Len(calls) :
           \A r \in RetryPool :
           \A cfg \in { [ config EXCEPT !.retry_count = r ] } :
           \A before \in { calls[c] } :
           \A after \in { calls'[c] } :
             /\ after.acquired \in { before.acquired, before.acquired + 1 }
             /\ after.acquired = before.acquired + 1
                  => after.running[Len(after.running)]
                       = [ task |-> before.acquired + 1,
                           due |-> clock + task_ms(cfg, before.host) ]
             /\ \A i, j \in 1..Len(after.running) :
                  i < j => after.running[i].task < after.running[j].task
             /\ after.done = before.done + 1
                  => \A u \in { before.urls[Head(before.running).task] } :
                     \A found \in { check_url(cfg, before.host, u) } :
                       /\ \A i \in 1..Len(after.running) :
                            after.running[i].task > Head(before.running).task
                       /\ after.results =
                            IF after.url_check # "elapsed" /\ found.kind = "some"
                            THEN Append(before.results, found) ELSE before.results
             /\ after.done = before.done => after.results = before.results ]_vars

\* C36 witness: with retry_count 3 a task has ended without a discovery, and
\* with it ended as many tasks as left the tasks that hold a permit
C36_Witness ==
  /\ config.retry_count = 3
  /\ Len(calls) = 1
  /\ calls[1].url_check \in { "none", "elapsed" }
  /\ calls[1].done > 1
  /\ calls[1].done + InFlightOf(1) = calls[1].acquired

(***************************************************************************)
(* Properties of the batch timeout                                         *)
(***************************************************************************)

\* scan_url_batch returns in this step although tasks of its batch have not
\* ended
TimedOutBatch ==
  /\ scan_pc \in { "root", "backup" }
  /\ ~BatchComplete
  /\ scan_pc' # scan_pc

\* C20: when scan_url_batch returns at its timeout with tasks outstanding,
\* no result pushed by a task is removed and the scan goes on: after the root
\* batch with the sleep before the backup batch, after the backup batch with
\* the next target, the results of the call appended to the results of scan;
\* the results of scan are never shortened, and scan returns an error only
\* before it has scanned any target.
C20_BatchTimeoutKeepsResults ==
  [][ /\ TimedOutBatch
        => /\ calls' = calls
           /\ scan_pc = "root" => scan_pc' = "sleep" /\ all_results' = all_results
           /\ scan_pc = "backup"
                => /\ scan_pc' = "next"
                   /\ all_results' = all_results \o calls[current].results
      /\ Len(all_results') >= Len(all_results)
      /\ SubSeq(all_results', 1, Len(all_results)) = all_results
      /\ scan_pc' = "failed" => calls = << >> ]_vars

\* C20 witness: scan has returned Ok after two targets; the batches of the
\* first timed out, tasks of it are still outstanding, and the discoveries it
\* had made are in the results of scan
C20_Witness ==
  /\ scan_pc = "done"
  /\ Len(calls) = 2
  /\ calls[1].done < Len(calls[1].urls)
  /\ calls[1].results # << >>
  /\ all_results # << >>
  /\ all_results[1] = calls[1].results[1]

\* the task of call c that ends in this step was spawned by a
\* scan_url_batch that has returned; the batch returns with a task
\* outstanding only at its timeout
EndsAfterItsBatch(c) ==
  \/ c < current
  \/ scan_pc \in { "next", "done" }
  \/ scan_pc \in { "sleep", "backup" }
       /\ Head(calls[c].running).task <= calls[c].root_url_count

\* C29: a task that ends after the timeout of its batch adds nothing to the
\* list its call of scan_urls returns, and so nothing to the results of
\* scan: it pushes no discovery while scan_urls has yet to return that list,
\* and a list already returned is in the results of scan as it was returned.
C29_LateOutcomeDropped ==
  [][ \A c \in EndingCalls :
        EndsAfterItsBatch(c)
          => /\ all_results' = all_results
             /\ (c = current /\ scan_pc \in { "sleep", "backup" })
                  => calls'[c].results = calls[c].results ]_vars

\* C37: scan returns in the end, whatever the hosts do and also when no task
\* can ever get a permit, and while scan_url_batch is waiting for a batch
\* the timeout of the batch is not overdue.
C37_ScanTerminates ==
  /\ [](scan_pc \in { "root", "backup" } => clock <= deadline)
  /\ <>(scan_pc \in { "done", "failed" })

\* C37 witness: scan has returned Ok after two targets with a semaphore
\* without permits: tasks were spawned for both and none has started
C37_Witness ==
  /\ scan_pc = "done"
  /\ config.threads = 0
  /\ Len(calls) = 2
  /\ \A c \in 1..2 : calls[c].spawned > 0 /\ calls[c].acquired = 0 /\ calls[c].done = 0

\* C38: a discovery pushed to the list of a call of scan_urls is pushed at
\* the end of the list by a task that ends, has the URL of that task, one
\* of the candidates of the call and not the Location the host sent, and
\* has status 200 or 403 as the host answered the HEAD, or the 2xx status
\* of the GET of the Location; it has no 3xx status.  No other step changes
\* the list.
C38_DiscoveriesAreCandidates ==
  [][ Len(calls') = Len(calls)
        => \A c \in 1..Len(calls) :
           \A before \in { calls[c] } :
           \A after \in { calls'[c] } :
             after.results # before.results
               => \A found \in { after.results[Len(after.results)] } :
                    /\ after.results = Append(before.results, found)
                    /\ after.done = before.done + 1
                    /\ found.url = before.urls[Head(before.running).task]
                    /\ IsSome(before.host.location) => found.url # before.host.location[1]
                    /\ \/ /\ found.status_code \in { 200, 403 }
                          /\ found.status_code = before.host.status
                       \/ /\ is_redirection(before.host.status)
                          /\ IsSome(before.host.location)
                          /\ found.status_code = before.host.redirect_status
                          /\ is_success(found.status_code)
                    /\ ~is_redirection(found.status_code) ]_vars

\* C38 witness: scan has returned a list with a discovery made by following
\* a redirection and one made on a 403
C38_Witness ==
  /\ scan_pc = "done"
  /\ \E i, j \in 1..Len(all_results) :
       /\ all_results[i].status_code = 206
       /\ all_results[j].status_code = 403

\* the successes and the attempts of all pattern keys
Successes(rates) == SumOver([ key \in DOMAIN rates |-> rates[key][1] ], DOMAIN rates)

Attempts(rates) == SumOver([ key \in DOMAIN rates |-> rates[key][2] ], DOMAIN rates)

\* C39: the successes of all pattern keys are the discoveries pushed plus
\* the tasks that have updated the statistics in the Ok(Some) arm and have
\* not pushed yet, hence at least the discoveries pushed and as many when no
\* task is there; the attempts of all keys are the tasks past their match,
\* never more than the tasks spawned.
C39_SuccessesCoverDiscoveries ==
  /\ Successes(task_rates)
       = Len(task_results) + Cardinality({ t \in Tasks : task_pc[t] = "push" })
  /\ Successes(task_rates) >= Len(task_results)
  /\ (\A t \in Tasks : task_pc[t] # "push") => Successes(task_rates) = Len(task_results)
  /\ Attempts(task_rates) = Cardinality({ t \in Tasks : task_pc[t] \in { "push", "ended" } })
  /\ Attempts(task_rates) <= Len(task_urls)

\* C39 witness: two tasks are between their update and their push while a
\* discovery of a third is in the list
C39_Witness ==
  /\ Len(task_results) = 1
  /\ Cardinality({ t \in Tasks : task_pc[t] = "push" }) = 2
  /\ Successes(task_rates) = 3

\* C40: a call of adjust_concurrency leaves the current thread count
\* within 1..config.threads: on a 429 or 503 at max(1, 3/4 of it), on a status
\* below 400 at min(config.threads, 5/4 of it); and below config.threads
\* every status below 400 raises it, so that a long enough run of them
\* brings it back to config.threads.
C40_ThreadsBoundedAndRecover ==
  [][ adjust_calls' = adjust_calls + 1
        => /\ 1 <= current_threads' /\ current_threads' <= config_threads
           /\ last_status' \in { 429, 503 }
                => current_threads' = Max(1, (3 * current_threads) \div 4)
           /\ last_status' < 400
                => current_threads' = Min(config_threads, (5 * current_threads) \div 4)
           /\ (last_status' < 400 /\ current_threads < config_threads)
                => current_threads' > current_threads ]_vars

\* C40, the part that holds: the count stays within 1..config.threads, a 429
\* or 503 leaves max(1, 3/4 of it) rounded down and a status below 400
\* min(config.threads, 5/4 of it) rounded down
C40_ThreadsBounded ==
  [][ adjust_calls' = adjust_calls + 1
        => /\ 1 <= current_threads' /\ current_threads' <= config_threads
           /\ last_status' \in { 429, 503 }
                => current_threads' = Max(1, (3 * current_threads) \div 4)
           /\ last_status' < 400
                => current_threads' = Min(config_threads, (5 * current_threads) \div 4) ]_vars

(***************************************************************************)
(* Properties of the saving of discoveries                                 *)
(***************************************************************************)

\* the discoveries the tasks have pushed to the result lists so far
Discoveries == UNION { Range(calls[c].results) : c \in 1..Len(calls) }

\* the records in the file at path, none if there is no such file
RecordsIn(path) == IF path \in DOMAIN files THEN Range(files[path]) ELSE {}

\* C17: with an output file configured and a file system that accepts every
\* write, the output file and the file with ".part" added to its name each hold
\* every discovery pushed so far.
C17_FilesHoldAllDiscoveries ==
  (IsSome(config.output_file) /\ unwritable = {})
    => /\ RecordsIn(config.output_file[1]) = Discoveries
       /\ RecordsIn(config.output_file[1] \o ".part") = Discoveries

\* C18: scan returns Ok only if no step of saving a discovery has failed.
C18_SaveFailurePropagates == scan_pc = "done" => save_errors = {}

\* C19: when main's timeout around scan has ended the scan, every discovery
\* pushed before that instant is in the output file given on the command line.
C19_TimeoutKeepsDiscoveries ==
  (main_pc = "timed_out" /\ IsSome(config.output_file) /\ unwritable = {})
    => Discoveries \subseteq RecordsIn(config.output_file[1])

(***************************************************************************)
(* Properties of the rate-limit state                                      *)
(***************************************************************************)

\* a call of check_rate_limiting is made in this step
RateCall == rate_calls' = rate_calls + 1

\* the hits recorded for host h in table hosts
HitsOf(hosts, h) == IF h \in DOMAIN hosts THEN hosts[h][1] ELSE 0

C23_HitFrame ==
  [][ RateCall
        => \A call \in { rate_call' } :
           \A h \in { call.host } :
             /\ (call.status \in { 429, 503 } /\ h # "")
                  => /\ DOMAIN rate_limited_hosts' = DOMAIN rate_limited_hosts \cup { h }
                     /\ rate_limited_hosts'[h]
                          = << HitsOf(rate_limited_hosts, h) + 1, instant' >>
                     /\ \A g \in DOMAIN rate_limited_hosts \ { h } :
                          rate_limited_hosts'[g] = rate_limited_hosts[g]
                     /\ call.limited <=> HitsOf(rate_limited_hosts, h) + 1 >= 3
                     /\ throttle_factor'
                          = IF HitsOf(rate_limited_hosts, h) + 1 >= 3
                            THEN FracMin(Frac(throttle_factor[1] * 3, throttle_factor[2] * 2),
                                         << 5, 1 >>)
                            ELSE throttle_factor
             /\ call.status \notin { 429, 503 }
                  => /\ rate_limited_hosts' = rate_limited_hosts
                     /\ ~call.limited ]_vars

\* C23 witness: the third hit of one host has just raised the factor while
\* another host has fewer hits
C23_Witness ==
  /\ rate_call.limited
  /\ HitsOf(rate_limited_hosts, rate_call.host) = 3
  /\ \E g \in DOMAIN rate_limited_hosts : HitsOf(rate_limited_hosts, g) = 1
  /\ throttle_factor = << 3, 2 >>

(***************************************************************************)
(* Properties of the locks of HttpClient                                   *)
(***************************************************************************)

\* C30: no caller of warm_up_connection holds the mutex of warmed_up_hosts
\* while its HEAD request is in flight, and so a caller waiting for the
\* mutex never waits for the request of another caller.
C30_NoLockAcrossRequest ==
  \A k \in 1..WarmCallers :
    /\ warm_ups[k].pc = "head" => warmed_up_lock # k
    /\ warm_ups[k].pc = "lock"
         => \A j \in (1..WarmCallers) \ { k } :
              warm_ups[j].pc = "head" => warmed_up_lock = 0

\* C31: warm_up_connection sends at most one HEAD request to a host, whatever
\* became of the request it sent before.
C31_OneWarmUpPerHost ==
  \A h \in DOMAIN warm_heads : warm_heads[h] <= 1

(***************************************************************************)
(* Properties of the latencies and the adaptive timeout                    *)
(***************************************************************************)

\* the latencies kept of host h
WindowOf(times, h) == IF h \in DOMAIN times THEN times[h] ELSE << >>

\* C32: for a host with latencies get_adaptive_timeout returns three times
\* their average plus 2 s, raised to 5 s and lowered to the timeout of the
\* client, and never more than the timeout of the client; for a URL
\* without latencies or without a host it returns the timeout of the client.
C32_AdaptiveTimeoutClamped ==
  time_call.op = "adaptive"
    => \A w \in { WindowOf(response_times, time_call.host) } :
         /\ time_call.returned <= client_timeout_secs * 1000000
         /\ IF time_call.host = "" \/ w = << >>
            THEN time_call.returned = client_timeout_secs * 1000000
            ELSE time_call.returned =
                   Min(Max((SumSeq(w) \div Len(w)) * 3 + 2000000, 5000000),
                       client_timeout_secs * 1000000)

\* C33: a call of record_response_time for a URL with a host appends the
\* latency to the window of that host and, if the window then has more than
\* 10 entries, removes the oldest, so that every window holds the last
\* entries recorded for its host, 10 at most, oldest first; the windows
\* of the other hosts are unchanged, and a URL without a host changes none.
C33_WindowKeepsLastTen ==
  [][ \A call \in { time_call' } :
        /\ \A h \in DOMAIN response_times' : Len(response_times'[h]) <= 10
        /\ call.op = "adaptive" => response_times' = response_times
        /\ (call.op = "record" /\ call.host = "") => response_times' = response_times
        /\ (call.op = "record" /\ call.host # "")
             => \A old \in { WindowOf(response_times, call.host) } :
                \A new \in { WindowOf(response_times', call.host) } :
                  /\ DOMAIN response_times' = DOMAIN response_times \cup { call.host }
                  /\ \A g \in DOMAIN response_times \ { call.host } :
                       response_times'[g] = response_times[g]
                  /\ new # << >>
                  /\ new[Len(new)] = call.duration
                  /\ Len(new) = Min(Len(old) + 1, 10)
                  /\ \A i \in 1..(Len(new) - 1) :
                       new[i] = old[Len(old) - (Len(new) - 1) + i] ]_vars

\* C33 witness: the eleventh latency of a host has been recorded and the
\* first is gone, while another host has latencies too
C33_Witness ==
  /\ time_call.op = "record"
  /\ time_counts[time_call.url_str] = 11
  /\ Len(response_times[time_call.host]) = 10
  /\ response_times[time_call.host][1] > latency_step
  /\ \E g \in DOMAIN response_times \ { time_call.host } : response_times[g] # << >>

=========================================================================
